---------------------------- MODULE Spec2Model ----------------------------
(***************************************************************************)
(* The GPU texture atlas (BladeAtlas) and its staging-buffer belt          *)
(* (BladeBelt) of crates/gpui/src/platform/linux.                          *)
(*                                                                         *)
(* One action per public operation of BladeAtlas; every helper the         *)
(* operations call (BladeAtlasState::allocate, push_texture,               *)
(* upload_texture, flush, BladeBelt::alloc, alloc_data, flush) is an       *)
(* operator computed the way the code computes it.  The rectangle packer   *)
(* is the bucketed shelf allocator of the etagere crate with its default   *)
(* options (one column, alignment 1x1, no flip).                           *)
(***************************************************************************)
EXTENDS Integers, Sequences, FiniteSets, TLC

(***************************************************************************)
(* Program constants.                                                      *)
(***************************************************************************)
DEFAULT_ATLAS_SIZE == 1024

min_chunk_size == 65536

U16_MAX == 65535

(***************************************************************************)
(* Bounds of the model.                                                    *)
(***************************************************************************)
\* textures the GPU context will create, all kinds together
MaxTextures == 3

\* tiles reserved in the allocators of all kinds together between two clears
MaxLive == 3

\* staging buffers the GPU context will create
MaxBuffers == 2

\* frames submitted (after_frame calls) where every operation is interleaved;
\* the specification of the uploads submits one more
MaxFrames == 1

\* the ranges a direct caller of the belt takes with alloc_data
MaxPieces == 3

Kinds == {"Monochrome", "Polychrome", "Path"}

Keys == {"glyph_a", "glyph_b", "image_c"}

\* AtlasKey::texture_kind: glyphs are monochrome, images polychrome
texture_kind(key) == IF key = "image_c" THEN "Polychrome" ELSE "Monochrome"

Min(a, b) == IF a < b THEN a ELSE b

Max(a, b) == IF a > b THEN a ELSE b

Size(w, h) == [width |-> w, height |-> h]

Point(x, y) == [x |-> x, y |-> y]

None == [none |-> TRUE]

(***************************************************************************)
(* etagere::BucketedAtlasAllocator.  A texture is cut into horizontal      *)
(* shelves; a shelf is cut into buckets of equal width; a bucket is        *)
(* filled left to right.  Nothing is ever deallocated by the atlas, so     *)
(* shelves are never coalesced.                                            *)
(***************************************************************************)
shelf_height(size) ==
    LET alignment == IF size <= 31 THEN 8
                     ELSE IF size <= 127 THEN 16
                     ELSE IF size <= 511 THEN 32
                     ELSE 64
        rem == size % alignment
    IN  IF rem > 0 THEN size + alignment - rem ELSE size

num_buckets(shelf_width, width, height) ==
    LET q == shelf_width \div Max(width, height)
    IN  IF q <= 4 THEN 1
        ELSE IF q <= 15 THEN 2
        ELSE IF q <= 64 THEN 4
        ELSE IF q <= 256 THEN 8
        ELSE 16

\* BucketedAtlasAllocator::new(size)
AllocatorNew(size) ==
    [ width            |-> size.width,
      height           |-> size.height,
      available_height |-> size.height,
      shelves          |-> << >> ]

\* BucketedAtlasAllocator::clear
AllocatorClear(a) == AllocatorNew(Size(a.width, a.height))

\* BucketedAtlasAllocator::size
AllocatorSize(a) == Size(a.width, a.height)

\* the first bucket of a shelf with room for `width`, 0 when there is none
FirstBucket(shelf, width) ==
    LET fits == { j \in 1..Len(shelf.buckets) : shelf.buckets[j].free_space >= width }
    IN  IF fits = {} THEN 0 ELSE CHOOSE j \in fits : \A i \in fits : j <= i

\* the shelf scan of allocate: <<shelf, bucket>> of the selected bucket, <<0, 0>> for none
RECURSIVE ScanShelves(_, _, _, _, _, _, _)
ScanShelves(a, w, h, can_add_shelf, i, selected, best_waste) ==
    IF i > Len(a.shelves) THEN selected
    ELSE LET shelf == a.shelves[i]
             y_waste == shelf.height - h
             b == FirstBucket(shelf, w)
         IN  IF shelf.height < h \/ shelf.bucket_width < w
               THEN ScanShelves(a, w, h, can_add_shelf, i + 1, selected, best_waste)
             ELSE IF y_waste > best_waste \/ (can_add_shelf /\ y_waste > h)
               THEN ScanShelves(a, w, h, can_add_shelf, i + 1, selected, best_waste)
             ELSE IF b = 0
               THEN ScanShelves(a, w, h, can_add_shelf, i + 1, selected, best_waste)
             ELSE IF y_waste = 0
               THEN <<i, b>>
             ELSE IF y_waste < best_waste
               THEN ScanShelves(a, w, h, can_add_shelf, i + 1, <<i, b>>, y_waste)
             ELSE ScanShelves(a, w, h, can_add_shelf, i + 1, selected, best_waste)

\* add_shelf: a new shelf below the last one, cut into buckets
AddShelf(a, w, h) ==
    LET height == Min(shelf_height(h), a.available_height)
        n == num_buckets(a.width, w, height)
        bucket_width == a.width \div n
        shelf == [ y            |-> a.height - a.available_height,
                   height       |-> height,
                   bucket_width |-> bucket_width,
                   buckets      |-> [ j \in 1..n |->
                                        [ x          |-> (j - 1) * bucket_width,
                                          free_space |-> bucket_width,
                                          refcount   |-> 0 ] ] ]
    IN  [ a EXCEPT !.available_height = @ - height,
                   !.shelves = Append(@, shelf) ]

\* the number of buckets of the shelves before shelf s: a bucket's index is its id
BucketsBefore(a, s) ==
    LET RECURSIVE Sum(_)
        Sum(i) == IF i = 0 THEN 0 ELSE Len(a.shelves[i].buckets) + Sum(i - 1)
    IN  Sum(s - 1)

\* alloc_from_bucket
AllocFromBucket(a, s, b, w) ==
    LET shelf == a.shelves[s]
        bucket == shelf.buckets[b]
    IN  [ allocator |-> [ a EXCEPT !.shelves[s].buckets[b] =
                              [ x          |-> bucket.x + w,
                                free_space |-> bucket.free_space - w,
                                refcount   |-> bucket.refcount + 1 ] ],
          id        |-> BucketsBefore(a, s) + b - 1,
          min       |-> Point(bucket.x, shelf.y),
          max       |-> Point(bucket.x + w, shelf.y + shelf.height) ]

\* the first bucket of the shelf just added
AllocFromNewShelf(grown, w) == AllocFromBucket(grown, Len(grown.shelves), 1, w)

\* allocate, once the shelf scan has selected <<shelf, bucket>> or <<0, 0>>
AllocateSelected(a, size, can_add_shelf, sel) ==
    IF sel # <<0, 0>>
      THEN AllocFromBucket(a, sel[1], sel[2], size.width)
    ELSE IF can_add_shelf
      THEN AllocFromNewShelf(AddShelf(a, size.width, size.height), size.width)
    ELSE None

AllocateScanned(a, size, can_add_shelf) ==
    AllocateSelected(a, size, can_add_shelf,
                     ScanShelves(a, size.width, size.height, can_add_shelf,
                                 1, <<0, 0>>, U16_MAX))

\* BucketedAtlasAllocator::allocate: None, or the allocation and the allocator after it
AllocatorAllocate(a, size) ==
    IF size.width <= 0 \/ size.height <= 0
         \/ size.width > U16_MAX \/ size.height > U16_MAX
      THEN None
    ELSE IF size.width > a.width \/ size.height > a.height
      THEN None
    ELSE AllocateScanned(a, size, a.available_height >= size.height)

(***************************************************************************)
(* BladeAtlasTexture.                                                      *)
(***************************************************************************)
NoTile ==
    [ texture_id |-> [index |-> -1, kind |-> "none"],
      tile_id    |-> -1,
      padding    |-> 0,
      bounds     |-> [origin |-> Point(0, 0), size |-> Size(0, 0)] ]

\* a clear that left the allocator as it was
TextureKept(texture) == texture

\* BladeAtlasTexture::clear
TextureClear(texture) == [texture EXCEPT !.allocator = AllocatorClear(@)]

\* a tile that took the origin of its texture instead of its rectangle's minimum
TileAtOrigin(texture, size, allocation) ==
    IF allocation = None THEN None
    ELSE [ texture |-> [texture EXCEPT !.allocator = allocation.allocator],
           tile    |-> [ texture_id |-> texture.id,
                         tile_id    |-> allocation.id,
                         padding    |-> 0,
                         bounds     |-> [origin |-> Point(0, 0), size |-> size] ] ]

\* a tile that took the size of the rectangle the packer reserved
TileOfRectangle(texture, size, allocation) ==
    IF allocation = None THEN None
    ELSE [ texture |-> [texture EXCEPT !.allocator = allocation.allocator],
           tile    |-> [ texture_id |-> texture.id,
                         tile_id    |-> allocation.id,
                         padding    |-> 0,
                         bounds     |-> [origin |-> allocation.min,
                                         size   |-> Size(allocation.max.x - allocation.min.x,
                                                         allocation.max.y - allocation.min.y)] ] ]

\* BladeAtlasTexture::allocate: None, or the tile and the texture after it.
\* The tile's size is the requested one, its origin the rectangle's minimum.
TileOf(texture, size, allocation) ==
    IF allocation = None THEN None
    ELSE [ texture |-> [texture EXCEPT !.allocator = allocation.allocator],
           tile    |-> [ texture_id |-> texture.id,
                         tile_id    |-> allocation.id,
                         padding    |-> 0,
                         bounds     |-> [origin |-> allocation.min, size |-> size] ] ]

TextureAllocate(texture, size) ==
    TileOf(texture, size, AllocatorAllocate(texture.allocator, size))

\* the format's block size: R8Unorm 1, Bgra8Unorm 4, R16Float 2
bytes_per_pixel(kind) ==
    IF kind = "Monochrome" THEN 1 ELSE IF kind = "Polychrome" THEN 4 ELSE 2

\* TextureUsage::TARGET is set for Path textures only
IsTarget(kind) == kind = "Path"

TotalTextures(texs) ==
    Len(texs["Monochrome"]) + Len(texs["Polychrome"]) + Len(texs["Path"])

TotalViews(texs) == Len(texs["Path"])

\* a push_texture that ignored min_size: every texture has the default size
PushTextureDefault(texs, min_size, kind) ==
    [texs EXCEPT ![kind] =
        Append(@, [ id        |-> [index |-> Len(texs[kind]), kind |-> kind],
                    allocator |-> AllocatorNew(Size(DEFAULT_ATLAS_SIZE, DEFAULT_ATLAS_SIZE)),
                    format    |-> bytes_per_pixel(kind),
                    raw       |-> TotalTextures(texs) + 1,
                    raw_view  |-> IF IsTarget(kind) THEN TotalViews(texs) + 1 ELSE 0 ])]

\* a push_texture that took the smaller of min_size and the default size
PushTextureSmaller(texs, min_size, kind) ==
    [texs EXCEPT ![kind] =
        Append(@, [ id        |-> [index |-> Len(texs[kind]), kind |-> kind],
                    allocator |-> AllocatorNew(Size(Min(min_size.width, DEFAULT_ATLAS_SIZE),
                                                    Min(min_size.height, DEFAULT_ATLAS_SIZE))),
                    format    |-> bytes_per_pixel(kind),
                    raw       |-> TotalTextures(texs) + 1,
                    raw_view  |-> IF IsTarget(kind) THEN TotalViews(texs) + 1 ELSE 0 ])]

\* a push_texture that gave every texture the id of a monochrome one
PushTextureOneKind(texs, min_size, kind) ==
    [texs EXCEPT ![kind] =
        Append(@, [ id        |-> [index |-> Len(texs[kind]), kind |-> "Monochrome"],
                    allocator |-> AllocatorNew(Size(Max(min_size.width, DEFAULT_ATLAS_SIZE),
                                                    Max(min_size.height, DEFAULT_ATLAS_SIZE))),
                    format    |-> bytes_per_pixel(kind),
                    raw       |-> TotalTextures(texs) + 1,
                    raw_view  |-> IF IsTarget(kind) THEN TotalViews(texs) + 1 ELSE 0 ])]

\* a push_texture that made every texture square, as wide as its larger side
PushTextureSquare(texs, min_size, kind) ==
    [texs EXCEPT ![kind] =
        Append(@, [ id        |-> [index |-> Len(texs[kind]), kind |-> kind],
                    allocator |-> AllocatorNew(
                                      Size(Max(Max(min_size.width, min_size.height),
                                               DEFAULT_ATLAS_SIZE),
                                           Max(Max(min_size.width, min_size.height),
                                               DEFAULT_ATLAS_SIZE))),
                    format    |-> bytes_per_pixel(kind),
                    raw       |-> TotalTextures(texs) + 1,
                    raw_view  |-> IF IsTarget(kind) THEN TotalViews(texs) + 1 ELSE 0 ])]

\* a push_texture that numbered the texture by the length of the pool after it
PushTextureCounted(texs, min_size, kind) ==
    [texs EXCEPT ![kind] =
        Append(@, [ id        |-> [index |-> Len(texs[kind]) + 1, kind |-> kind],
                    allocator |-> AllocatorNew(Size(Max(min_size.width, DEFAULT_ATLAS_SIZE),
                                                    Max(min_size.height, DEFAULT_ATLAS_SIZE))),
                    format    |-> bytes_per_pixel(kind),
                    raw       |-> TotalTextures(texs) + 1,
                    raw_view  |-> IF IsTarget(kind) THEN TotalViews(texs) + 1 ELSE 0 ])]

\* BladeAtlasState::push_texture: the pool of `kind` with a new texture of
\* max(min_size, DEFAULT_ATLAS_SIZE) appended; its index is the pool's length.
\* The handles are the ones the GPU context creates next.
PushTexture(texs, min_size, kind) ==
    LET size == Size(Max(min_size.width, DEFAULT_ATLAS_SIZE),
                     Max(min_size.height, DEFAULT_ATLAS_SIZE))
        atlas_texture ==
            [ id        |-> [index |-> Len(texs[kind]), kind |-> kind],
              allocator |-> AllocatorNew(size),
              format    |-> bytes_per_pixel(kind),
              raw       |-> TotalTextures(texs) + 1,
              raw_view  |-> IF IsTarget(kind) THEN TotalViews(texs) + 1 ELSE 0 ]
    IN  [texs EXCEPT ![kind] = Append(@, atlas_texture)]

\* a find_map without rev(): the position of the oldest texture that accepts
FindMapOldest(pool, size, i) ==
    IF \A j \in 1..i : TextureAllocate(pool[j], size) = None THEN 0
    ELSE CHOOSE j \in 1..i :
             /\ TextureAllocate(pool[j], size) # None
             /\ \A h \in 1..(j - 1) : TextureAllocate(pool[h], size) = None

\* textures.iter_mut().rev().find_map(|texture| texture.allocate(size)):
\* the position of the newest texture of the pool that accepts, 0 for none
RECURSIVE FindMapRev(_, _, _)
FindMapRev(pool, size, i) ==
    IF i = 0 THEN 0
    ELSE IF TextureAllocate(pool[i], size) # None THEN i
    ELSE FindMapRev(pool, size, i - 1)

\* an allocate that returned an empty tile where the packer gave none
AllocatedOrEmpty(texs, kind, i, r, created) ==
    IF r = None
      THEN [ textures |-> texs,
             tile     |-> [ texture_id |-> [index |-> i - 1, kind |-> kind],
                            tile_id    |-> 0,
                            padding    |-> 0,
                            bounds     |-> [origin |-> Point(0, 0), size |-> Size(0, 0)] ],
             created  |-> created,
             panic    |-> FALSE ]
    ELSE [ textures |-> [texs EXCEPT ![kind][i] = r.texture],
           tile     |-> r.tile,
           created  |-> created,
           panic    |-> FALSE ]

\* BladeAtlasState::allocate: the pools after the call, the tile, whether a
\* texture was created, and whether the final unwrap panicked (the texture
\* pushed before the unwrap stays in its pool).
Allocated(texs, kind, i, r, created) ==
    IF r = None
      THEN [ textures |-> texs, tile |-> NoTile, created |-> created, panic |-> TRUE ]
    ELSE [ textures |-> [texs EXCEPT ![kind][i] = r.texture],
           tile     |-> r.tile,
           created  |-> created,
           panic    |-> FALSE ]

\* the unwrap_or_else closure: push_texture(size, kind), then allocate(size).unwrap()
AllocateInNew(pushed, size, kind) ==
    Allocated(pushed, kind, Len(pushed[kind]),
              TextureAllocate(pushed[kind][Len(pushed[kind])], size), TRUE)

AllocateFound(texs, size, kind, i) ==
    IF i # 0
      THEN Allocated(texs, kind, i, TextureAllocate(texs[kind][i], size), FALSE)
    ELSE AllocateInNew(PushTexture(texs, size, kind), size, kind)

StateAllocate(texs, size, kind) ==
    AllocateFound(texs, size, kind, FindMapRev(texs[kind], size, Len(texs[kind])))

(***************************************************************************)
(* BladeBelt.  A buffer's handle `raw` is the number the GPU context gave  *)
(* it; a sync point is the number of the frame submission it stands for.   *)
(***************************************************************************)
\* a belt that has no minimum for the buffers it creates
BeltNewNoMinimum(desc_min_chunk_size) ==
    [ min_chunk_size |-> 0,
      buffers        |-> << >>,
      active         |-> << >> ]

\* BladeBelt::new
BeltNew(desc_min_chunk_size) ==
    [ min_chunk_size |-> desc_min_chunk_size,
      buffers        |-> << >>,
      active         |-> << >> ]

\* a removal that left the sequence as it was
RemoveNothing(seq, i) == seq

\* Vec::remove(index)
RemoveAt(seq, i) == SubSeq(seq, 1, i - 1) \o SubSeq(seq, i + 1, Len(seq))

\* gpu.wait_for(sp, 0): a poll with a zero timeout
wait_for(sp, completed) == sp <= completed

\* a search that took the first active buffer without looking at its room
FirstActiveAny(belt, size) == IF belt.active = << >> THEN 0 ELSE 1

\* a scan that found no active buffer, whatever room they had
FirstActiveNone(belt, size) == 0

\* a scan that compared the size with the capacity, not with the room left
FirstActiveByCapacity(belt, size) ==
    LET fits == { i \in 1..Len(belt.active) : size <= belt.active[i].size }
    IN  IF fits = {} THEN 0 ELSE CHOOSE i \in fits : \A j \in fits : i <= j

\* the first active buffer with offset + size <= capacity, 0 for none
FirstActive(belt, size) ==
    LET fits == { i \in 1..Len(belt.active) :
                    belt.active[i].offset + size <= belt.active[i].size }
    IN  IF fits = {} THEN 0 ELSE CHOOSE i \in fits : \A j \in fits : i <= j

\* a promotion that did not poll the sync point
ReusableUnpolled(belt, size, completed) ==
    { i \in 1..Len(belt.buffers) : size <= belt.buffers[i].size }

\* a belt that never promoted a retired buffer
ReusableNone(belt, size, completed) == {}

\* the retired buffers alloc may promote
Reusable(belt, size, completed) ==
    { i \in 1..Len(belt.buffers) :
        size <= belt.buffers[i].size /\ wait_for(belt.buffers[i].sp, completed) }

\* a position that took the last retired buffer that can be promoted
FirstRetiredLast(belt, size, completed) ==
    CHOOSE i \in Reusable(belt, size, completed) \cup {0} :
        \A j \in Reusable(belt, size, completed) : j <= i

\* buffers.iter().position(..): the first of them, 0 for none
FirstRetired(belt, size, completed) ==
    LET ok == Reusable(belt, size, completed)
    IN  IF ok = {} THEN 0 ELSE CHOOSE i \in ok : \A j \in ok : i <= j

\* BladeBelt::alloc: the belt after the call, the piece handed out, the tier
\* it came from and, for a promoted buffer, the sync point it carried
BeltAlloc(belt, size, completed) ==
    LET a == FirstActive(belt, size)
        r == FirstRetired(belt, size, completed)
        chunk_index == Len(belt.buffers) + Len(belt.active)
        chunk_size == Max(size, belt.min_chunk_size)
    IN  IF a # 0
          THEN [ belt  |-> [belt EXCEPT !.active[a].offset = @ + size],
                 piece |-> [buffer |-> belt.active[a].raw, offset |-> belt.active[a].offset],
                 tier  |-> "active",
                 sp    |-> 0 ]
        ELSE IF r # 0
          THEN [ belt  |-> [belt EXCEPT
                              !.buffers = RemoveAt(@, r),
                              !.active = Append(@, [ raw    |-> belt.buffers[r].raw,
                                                     size   |-> belt.buffers[r].size,
                                                     offset |-> size ])],
                 piece |-> [buffer |-> belt.buffers[r].raw, offset |-> 0],
                 tier  |-> "retired",
                 sp    |-> belt.buffers[r].sp ]
        ELSE [ belt  |-> [belt EXCEPT
                            !.active = Append(@, [ raw    |-> chunk_index + 1,
                                                   size   |-> chunk_size,
                                                   offset |-> size ])],
               piece |-> [buffer |-> chunk_index + 1, offset |-> 0],
               tier  |-> "new",
               sp    |-> 0 ]

\* an alignment that rounded the offset down
AlignedPieceDown(got, alignment) ==
    [ got EXCEPT !.piece.offset = @ - (@ % alignment) ]

\* alloc_data: `bp.offset += alignment - rem` when the offset is not aligned
AlignedPiece(got, alignment) ==
    [ got EXCEPT !.piece.offset =
        IF @ % alignment # 0 THEN @ + alignment - (@ % alignment) ELSE @ ]

\* an alloc_data without its assertion; for no data the subtraction stops at 0
BeltAllocDataUnchecked(belt, len, elem_size, alignment, completed) ==
    AlignedPiece(BeltAlloc(belt, alignment + Max(len * elem_size - 1, 0), completed),
                 alignment)

\* the outcome of alloc_data when `assert!(!data.is_empty())` fails: the belt as it was
AssertFailed(belt) ==
    [ belt |-> belt, piece |-> [buffer |-> 0, offset |-> 0], tier |-> "assert", sp |-> 0 ]

\* BladeBelt::alloc_data for `len` elements of `elem_size` bytes aligned to `alignment`
BeltAllocData(belt, len, elem_size, alignment, completed) ==
    IF len = 0 THEN AssertFailed(belt)
    ELSE AlignedPiece(BeltAlloc(belt, alignment + (len * elem_size - 1), completed),
                      alignment)

\* a flush that tagged the buffers retired earlier with the new sync point too
BeltFlushRetagging(belt, sp) ==
    [ belt EXCEPT
        !.buffers = [ i \in 1..Len(belt.buffers) |-> [belt.buffers[i] EXCEPT !.sp = sp] ]
                      \o [ i \in 1..Len(belt.active) |->
                             [ raw  |-> belt.active[i].raw,
                               size |-> belt.active[i].size,
                               sp   |-> sp ] ],
        !.active = << >> ]

\* BladeBelt::flush
BeltFlush(belt, sp) ==
    [ belt EXCEPT
        !.buffers = @ \o [ i \in 1..Len(belt.active) |->
                             [ raw  |-> belt.active[i].raw,
                               size |-> belt.active[i].size,
                               sp   |-> sp ] ],
        !.active = << >> ]

\* a destroy that drained the retired buffers only
BeltDestroyRetired(belt) == [belt EXCEPT !.buffers = << >>]

\* BladeBelt::destroy
BeltDestroy(belt) == [belt EXCEPT !.buffers = << >>, !.active = << >>]

(***************************************************************************)
(* Inputs of the operations.                                               *)
(***************************************************************************)
\* the (size, kind) requests made of BladeAtlas::allocate; one is zero-sized
AllocRequests ==
    { <<Size(512, 512), "Path">>, <<Size(1024, 1024), "Path">>,
      <<Size(2048, 2048), "Path">>, <<Size(0, 512), "Path">> }

\* the keys whose tiles share the monochrome pool
GlyphKeys == { "glyph_a", "glyph_b" }

\* what a builder returns on success: the tile's size and the number of bytes
BuildOutputs ==
    { [size |-> Size(128, 128), len |-> 16384],
      [size |-> Size(512, 512), len |-> 262144] }

SmallOutputs == { [size |-> Size(128, 128), len |-> 16384] }

\* the inputs of the specification that interleaves every operation
FewKeys == { "glyph_a", "image_c" }

FewOutputs == { [size |-> Size(512, 512), len |-> 262144] }

FewRequests == { <<Size(1024, 1024), "Monochrome">> }

\* misuse: a builder that returns an empty size, one that returns no bytes,
\* and allocations of an empty size, next to regular ones
MisuseOutputs ==
    { [size |-> Size(128, 128), len |-> 16384],
      [size |-> Size(0, 128), len |-> 0],
      [size |-> Size(128, 128), len |-> 0] }

MisuseRequests ==
    { <<Size(512, 0), "Monochrome">>, <<Size(0, 0), "Path">>, <<Size(512, 512), "Path">> }

\* the inputs of the specification of the teardown
PathRequests == { <<Size(1024, 1024), "Path">> }

(***************************************************************************)
(* State.                                                                  *)
(***************************************************************************)
VARIABLES
    textures,      \* BladeAtlasState: the three pools, [Kinds -> Seq(BladeAtlasTexture)]
    tiles_by_key,  \* BladeAtlasState::tiles_by_key, NoTile for an unmapped key
    uploads,       \* BladeAtlasState::uploads, Seq(PendingUpload)
    upload_belt,   \* BladeAtlasState::upload_belt
    encoder,       \* the copy commands in the frame's command encoder, not yet submitted
    frames,        \* the submitted frames: frames[sp] is what frame sp has still to read
    completed,     \* the GPU has finished frames 1..completed
    destroyed,     \* BladeAtlas::destroy has run
    panicked,      \* whether an operation panicked, and the size it was asked for
    builds,        \* per key: builders that ran and returned Ok (counted up to 2)
    encoded,       \* per key: copy commands encoded for its uploads (counted up to 2)
    first,         \* per key: the tile its first successful get_or_insert returned
    live,          \* per kind: the tiles handed out since the kind's last clear, in order
    replay,        \* after clear_textures: the sizes still to re-allocate right after it
    flushed_at,    \* per buffer handle: the sync point of its last flush
    failed,        \* the key of the first builder that returned Err, "none" before it
    released,      \* the destroy calls made and the GPU handles they destroyed, in order
    threads,       \* the holder of the lock, and each caller's position in its call
    info,          \* what the last get_texture_info returned, and for which id
    typed          \* the ranges alloc_data returned to direct callers of the belt

atlas_vars == <<textures, tiles_by_key, uploads, upload_belt>>

gpu_vars == <<encoder, frames, completed>>

history_vars == <<builds, encoded, first, live, replay, flushed_at, failed, released, threads, info, typed>>

vars == <<textures, tiles_by_key, uploads, upload_belt, encoder, frames, completed,
          destroyed, panicked, builds, encoded, first, live, replay, flushed_at, failed, released, threads, info, typed>>

NoReplay == [active |-> FALSE, kind |-> "none", todo |-> << >>, count |-> 0]

NoPanic == [happened |-> FALSE, size |-> Size(0, 0)]

Panic(size) == [happened |-> TRUE, size |-> size]

\* the panic of a failed assertion, in a call that was given `size`
AssertPanic(size) == [happened |-> TRUE, size |-> size, assertion |-> TRUE]

Asserted == "assertion" \in DOMAIN panicked

NothingReleased == [calls |-> 0, textures |-> << >>, views |-> << >>, buffers |-> << >>]

\* the callers that share the atlas through their handles
Threads == { "t1", "t2" }

NoResult == [key |-> "none", tile |-> NoTile]

\* a caller outside any call.  The call it makes records its operation and
\* arguments, what the builder gave it, the tile allocate gave it and what it
\* returned; `behind`, `unmapped` and `entered` are history: who held the lock
\* when the call was made, whether the key was unmapped then, and the atlas
\* state found when the lock was taken.  `outer` is the frame below it on the
\* caller's stack: the get_or_insert_with whose builder made the call
Idle ==
    [ pc |-> "idle", op |-> "none", key |-> "none", kind |-> "none", built |-> None,
      tile |-> NoTile, behind |-> "none", unmapped |-> FALSE, entered |-> None,
      result |-> NoResult, outer |-> None ]

\* the Mutex is free and no caller is in a call
NoCalls == [lock |-> "none", call |-> [t \in Threads |-> Idle]]

\* no get_texture_info was made yet
NoInfo == [id |-> [index |-> -1, kind |-> "none"], size |-> Size(0, 0), raw_view |-> 0]

\* BladeAtlas::new
Init ==
    /\ textures = [k \in Kinds |-> << >>]
    /\ tiles_by_key = [k \in Keys |-> NoTile]
    /\ uploads = << >>
    /\ upload_belt = BeltNew(min_chunk_size)
    /\ encoder = << >>
    /\ frames = << >>
    /\ completed = 0
    /\ destroyed = FALSE
    /\ panicked = NoPanic
    /\ builds = [k \in Keys |-> 0]
    /\ encoded = [k \in Keys |-> 0]
    /\ first = [k \in Keys |-> NoTile]
    /\ live = [k \in Kinds |-> << >>]
    /\ replay = NoReplay
    /\ flushed_at = << >>
    /\ failed = "none"
    /\ released = NothingReleased
    /\ threads = NoCalls
    /\ info = NoInfo
    /\ typed = << >>

Usable == ~destroyed /\ ~panicked.happened

TotalLive == Len(live["Monochrome"]) + Len(live["Polychrome"]) + Len(live["Path"])

TotalBuffers(belt) == Len(belt.buffers) + Len(belt.active)

\* the bounds of the model: an allocation that needs a texture or a buffer the
\* GPU context will not create is not started
WithinTextureBounds(alloc) ==
    /\ alloc.created => TotalTextures(textures) < MaxTextures
    /\ ~alloc.panic => TotalLive < MaxLive

WithinBufferBounds(got) ==
    got.tier = "new" => TotalBuffers(upload_belt) < MaxBuffers

\* the replay of the sizes recorded at the last clear: the operation that
\* follows is the allocation of the next size of the list, or the replay ends
ReplayAfter(kind, size) ==
    IF replay.active /\ replay.kind = kind
         /\ replay.todo # << >> /\ Head(replay.todo) = size
      THEN [replay EXCEPT !.todo = Tail(@)]
    ELSE NoReplay

(***************************************************************************)
(* Byte ranges of staging buffers.                                         *)
(***************************************************************************)
Range(piece, len) == [buffer |-> piece.buffer, offset |-> piece.offset, len |-> len]

Overlap(r1, r2) ==
    /\ r1.buffer = r2.buffer
    /\ r1.offset < r2.offset + r2.len
    /\ r2.offset < r1.offset + r1.len

\* the ranges copy commands of the encoder and of the submitted frames the GPU
\* has not finished still have to read
EncoderReads == { Range(encoder[i].src, encoder[i].len) : i \in 1..Len(encoder) }

InFlightReads ==
    UNION { { Range(frames[f][i].src, frames[f][i].len) : i \in 1..Len(frames[f]) } :
            f \in 1..Len(frames) }

(***************************************************************************)
(* BladeAtlas operations.                                                  *)
(***************************************************************************)
\* get_or_insert_with, cache hit: what `Ok(tile.clone())` returns
HitResult(key) == tiles_by_key[key]

\* a hit that queued the upload of the stored tile again
GetOrInsertHitUploading(key) ==
    /\ Usable
    /\ tiles_by_key[key] # NoTile
    /\ uploads' = Append(uploads, [ id     |-> tiles_by_key[key].texture_id,
                                    bounds |-> tiles_by_key[key].bounds,
                                    data   |-> [buffer |-> 1, offset |-> 0],
                                    len    |-> 1,
                                    key    |-> key ])
    /\ replay' = NoReplay
    /\ UNCHANGED <<textures, tiles_by_key, upload_belt, gpu_vars, destroyed, panicked,
                   builds, encoded, first, live, flushed_at, failed, released, threads, info, typed>>

\* get_or_insert_with, the key is mapped: the stored tile, no builder call
GetOrInsertHit(key) ==
    /\ Usable
    /\ tiles_by_key[key] # NoTile
    /\ replay' = NoReplay
    /\ UNCHANGED <<atlas_vars, gpu_vars, destroyed, panicked,
                   builds, encoded, first, live, flushed_at, failed, released, threads, info, typed>>

\* a get_or_insert_with that had pushed a texture before its builder failed
GetOrInsertErrAfterPush(key) ==
    /\ Usable
    /\ tiles_by_key[key] = NoTile
    /\ TotalTextures(textures) < MaxTextures
    /\ textures' = PushTexture(textures, Size(1, 1), texture_kind(key))
    /\ failed' = IF failed = "none" THEN key ELSE failed
    /\ replay' = NoReplay
    /\ UNCHANGED <<tiles_by_key, uploads, upload_belt, gpu_vars, destroyed, panicked,
                   builds, encoded, first, live, flushed_at, released, threads, info, typed>>

\* get_or_insert_with, the key is not mapped and build() returns Err: `?` returns it
GetOrInsertErr(key) ==
    /\ Usable
    /\ tiles_by_key[key] = NoTile
    /\ failed' = IF failed = "none" THEN key ELSE failed
    /\ replay' = NoReplay
    /\ UNCHANGED <<atlas_vars, gpu_vars, destroyed, panicked,
                   builds, encoded, first, live, flushed_at, released, threads, info, typed>>

\* an upload_texture that queued the upload for the origin of the texture
UploadedAtOrigin(pending, id, bounds, len, key, got) ==
    [ belt    |-> got.belt,
      uploads |-> Append(pending, [ id |-> id,
                                    bounds |-> [bounds EXCEPT !.origin = Point(0, 0)],
                                    data |-> got.piece, len |-> len, key |-> key ]),
      got     |-> got ]

\* BladeAtlasState::upload_texture: stage the bytes and queue the upload
Uploaded(pending, id, bounds, len, key, got) ==
    [ belt    |-> got.belt,
      uploads |-> IF got.tier = "assert" THEN pending
                  ELSE Append(pending, [ id |-> id, bounds |-> bounds, data |-> got.piece,
                                         len |-> len, key |-> key ]),
      got     |-> got ]

UploadTexture(belt, pending, id, bounds, len, key) ==
    Uploaded(pending, id, bounds, len, key, BeltAllocData(belt, len, 1, 1, completed))

\* tiles_by_key.insert(key.clone(), tile.clone())
InsertTile(map, key, tile) == [map EXCEPT ![key] = tile]

\* get_or_insert_with, the key is not mapped and build() returns Ok((size, bytes))
MissUploaded(key, built, alloc, up) ==
    /\ WithinBufferBounds(up.got)
    /\ upload_belt' = up.belt
    /\ uploads' = up.uploads
    /\ IF up.got.tier = "assert"
         THEN /\ panicked' = AssertPanic(built.size)
              /\ replay' = NoReplay
              /\ UNCHANGED <<tiles_by_key, first, live>>
       ELSE /\ tiles_by_key' = InsertTile(tiles_by_key, key, alloc.tile)
            /\ first' = [first EXCEPT ![key] = IF @ = NoTile THEN alloc.tile ELSE @]
            /\ live' = [live EXCEPT ![texture_kind(key)] = Append(@, alloc.tile)]
            /\ replay' = ReplayAfter(texture_kind(key), built.size)
            /\ UNCHANGED panicked

MissAllocated(key, built, alloc) ==
    /\ WithinTextureBounds(alloc)
    /\ textures' = alloc.textures
    /\ builds' = [builds EXCEPT ![key] = Min(@ + 1, 2)]
    /\ IF alloc.panic
         THEN /\ panicked' = Panic(built.size)
              /\ replay' = NoReplay
              /\ UNCHANGED <<tiles_by_key, uploads, upload_belt, first, live>>
       ELSE MissUploaded(key, built, alloc,
                         UploadTexture(upload_belt, uploads, alloc.tile.texture_id,
                                       alloc.tile.bounds, built.len, key))
    /\ UNCHANGED <<gpu_vars, destroyed, encoded, flushed_at, failed, released, threads, info, typed>>

GetOrInsertMiss(key, built) ==
    /\ Usable
    /\ tiles_by_key[key] = NoTile
    /\ MissAllocated(key, built, StateAllocate(textures, built.size, texture_kind(key)))

\* get_or_insert_with(key, build), for the builders that return one of `outputs`
GetOrInsert(key, outputs) ==
    \/ GetOrInsertHit(key)
    \/ GetOrInsertErr(key)
    \/ \E built \in outputs : GetOrInsertMiss(key, built)

\* an allocate that queued an upload for its tile, as get_or_insert_with does
AllocateDoneUploading(size, kind, alloc) ==
    /\ WithinTextureBounds(alloc)
    /\ textures' = alloc.textures
    /\ panicked' = IF alloc.panic THEN Panic(size) ELSE panicked
    /\ live' = IF alloc.panic THEN live
               ELSE [live EXCEPT ![kind] = Append(@, alloc.tile)]
    /\ replay' = IF alloc.panic THEN NoReplay ELSE ReplayAfter(kind, size)
    /\ uploads' = IF alloc.panic THEN uploads
                  ELSE Append(uploads, [ id     |-> alloc.tile.texture_id,
                                         bounds |-> alloc.tile.bounds,
                                         data   |-> [buffer |-> 1, offset |-> 0],
                                         len    |-> 1,
                                         key    |-> "none" ])
    /\ UNCHANGED <<tiles_by_key, upload_belt, gpu_vars, destroyed,
                   builds, encoded, first, flushed_at, failed, released, threads, info, typed>>

\* BladeAtlas::allocate
AllocateDone(size, kind, alloc) ==
    /\ WithinTextureBounds(alloc)
    /\ textures' = alloc.textures
    /\ panicked' = IF alloc.panic THEN Panic(size) ELSE panicked
    /\ live' = IF alloc.panic THEN live
               ELSE [live EXCEPT ![kind] = Append(@, alloc.tile)]
    /\ replay' = IF alloc.panic THEN NoReplay ELSE ReplayAfter(kind, size)
    /\ UNCHANGED <<tiles_by_key, uploads, upload_belt, gpu_vars, destroyed,
                   builds, encoded, first, flushed_at, failed, released, threads, info, typed>>

Allocate(size, kind) ==
    /\ Usable
    /\ AllocateDone(size, kind, StateAllocate(textures, size, kind))

\* what is to be re-allocated after clear_textures(kind): the sizes handed out
\* since the kind's last clear, in order, and the number of textures to keep
ReplayOf(kind) ==
    IF live[kind] = << >> THEN NoReplay
    ELSE [ active |-> TRUE, kind |-> kind,
           todo   |-> [i \in 1..Len(live[kind]) |-> live[kind][i].bounds.size],
           count  |-> Len(textures[kind]) ]

\* a clear that dropped the textures of the pool
ClearPoolEmptied(pool) == << >>

\* the pool with every texture's allocator cleared
ClearPool(pool) == [i \in 1..Len(pool) |-> TextureClear(pool[i])]

\* a clear_textures that also forgot the keys of the kind
ClearTexturesAndKeys(kind) ==
    /\ Usable
    /\ textures' = [textures EXCEPT ![kind] = ClearPool(@)]
    /\ tiles_by_key' = [ k \in Keys |->
                           IF texture_kind(k) = kind THEN NoTile ELSE tiles_by_key[k] ]
    /\ live' = [live EXCEPT ![kind] = << >>]
    /\ replay' = ReplayOf(kind)
    /\ UNCHANGED <<uploads, upload_belt, gpu_vars, destroyed, panicked,
                   builds, encoded, first, flushed_at, failed, released, threads, info, typed>>

\* BladeAtlas::clear_textures
ClearTextures(kind) ==
    /\ Usable
    /\ textures' = [textures EXCEPT ![kind] = ClearPool(@)]
    /\ live' = [live EXCEPT ![kind] = << >>]
    /\ replay' = ReplayOf(kind)
    /\ UNCHANGED <<tiles_by_key, uploads, upload_belt, gpu_vars, destroyed, panicked,
                   builds, encoded, first, flushed_at, failed, released, threads, info, typed>>

\* a copy command whose rows are as many bytes long as the tile is wide
CopyCommandPacked(upload, texs) ==
    LET texture == texs[upload.id.kind][upload.id.index + 1]
    IN  [ src           |-> upload.data,
          bytes_per_row |-> upload.bounds.size.width,
          texture       |-> texture.raw,
          origin        |-> upload.bounds.origin,
          extent        |-> upload.bounds.size,
          len           |-> upload.len,
          key           |-> upload.key ]

\* the copy command BladeAtlasState::flush encodes for one pending upload
CopyCommand(upload, texs) ==
    LET texture == texs[upload.id.kind][upload.id.index + 1]
    IN  [ src           |-> upload.data,
          bytes_per_row |-> upload.bounds.size.width * texture.format,
          texture       |-> texture.raw,
          origin        |-> upload.bounds.origin,
          extent        |-> upload.bounds.size,
          len           |-> upload.len,
          key           |-> upload.key ]

\* BladeAtlasState::flush: one copy command per pending upload, in order
StateFlush(pending, texs) == [i \in 1..Len(pending) |-> CopyCommand(pending[i], texs)]

\* a flush that kept the uploads it encoded
DrainedNothing(pending) == pending

\* uploads.drain(..): what is left of the list
Drained(pending) == << >>

\* BladeAtlas::before_frame
BeforeFrame ==
    /\ Usable
    /\ encoder' = encoder \o StateFlush(uploads, textures)
    /\ uploads' = Drained(uploads)
    /\ encoded' = [ k \in Keys |->
                      Min(encoded[k] + Cardinality({ i \in 1..Len(encoder') :
                                                       encoder'[i].key = k })
                                     - Cardinality({ i \in 1..Len(encoder) :
                                                       encoder[i].key = k }), 2) ]
    /\ replay' = NoReplay
    /\ UNCHANGED <<textures, tiles_by_key, upload_belt, frames, completed, destroyed,
                   panicked, builds, first, live, flushed_at, failed, released, threads, info, typed>>

\* the sync point of every active buffer becomes sp
FlushedAtAfter(belt, sp) ==
    LET n == Max(Len(flushed_at), TotalBuffers(belt))
    IN  [ b \in 1..n |->
            IF \E i \in 1..Len(belt.active) : belt.active[i].raw = b THEN sp
            ELSE IF b <= Len(flushed_at) THEN flushed_at[b] ELSE 0 ]

\* the frame's encoder is submitted, which yields sync point sp, and
\* BladeAtlas::after_frame(sp) hands sp to the belt
AfterFrame(limit) ==
    LET sp == Len(frames) + 1
    IN  /\ Usable
        /\ Len(frames) < limit
        /\ frames' = Append(frames, encoder)
        /\ encoder' = << >>
        /\ upload_belt' = BeltFlush(upload_belt, sp)
        /\ flushed_at' = FlushedAtAfter(upload_belt, sp)
        /\ replay' = NoReplay
        /\ UNCHANGED <<textures, tiles_by_key, uploads, completed, destroyed, panicked,
                       builds, encoded, first, live, failed, released, threads, info, typed>>

\* the GPU finishes the oldest unfinished frame: its sync point passes and
\* nothing of the frame is left to read
FenceComplete ==
    /\ completed < Len(frames)
    /\ completed' = completed + 1
    /\ frames' = [frames EXCEPT ![completed + 1] = << >>]
    /\ UNCHANGED <<atlas_vars, encoder, destroyed, panicked, history_vars>>

\* the handles of a pool, in the order destroy drains it
RawsOf(pool) == [i \in 1..Len(pool) |-> pool[i].raw]

ViewsOf(pool) == [i \in 1..Len(pool) |-> pool[i].raw_view]

\* BladeBelt::destroy: the buffers it destroys, retired ones first
BeltDestroyed(belt) ==
    [i \in 1..Len(belt.buffers) |-> belt.buffers[i].raw]
        \o [i \in 1..Len(belt.active) |-> belt.active[i].raw]

\* BladeAtlasState::destroy: what one more call has destroyed
ReleasedAfter(before, texs, belt) ==
    [ calls    |-> Min(before.calls + 1, 2),
      textures |-> before.textures \o RawsOf(texs["Monochrome"])
                     \o RawsOf(texs["Polychrome"]) \o RawsOf(texs["Path"]),
      views    |-> before.views \o ViewsOf(texs["Path"]),
      buffers  |-> before.buffers \o BeltDestroyed(belt) ]

\* BladeAtlas::destroy
Destroy ==
    /\ ~panicked.happened
    /\ textures' = [k \in Kinds |-> << >>]
    /\ upload_belt' = BeltDestroy(upload_belt)
    /\ destroyed' = TRUE
    /\ released' = ReleasedAfter(released, textures, upload_belt)
    /\ replay' = NoReplay
    /\ UNCHANGED <<tiles_by_key, uploads, gpu_vars, panicked,
                   builds, encoded, first, live, flushed_at, failed, threads, info, typed>>

\* a query that reported the width for both dimensions
TextureInfoSquare(texs, id) ==
    [ id       |-> id,
      size     |-> Size(AllocatorSize(texs[id.kind][id.index + 1].allocator).width,
                        AllocatorSize(texs[id.kind][id.index + 1].allocator).width),
      raw_view |-> texs[id.kind][id.index + 1].raw_view ]

\* BladeTextureInfo of textures[id.index]: the allocator's size and the
\* texture's view, 0 for None
TextureInfo(texs, id) ==
    [ id       |-> id,
      size     |-> AllocatorSize(texs[id.kind][id.index + 1].allocator),
      raw_view |-> texs[id.kind][id.index + 1].raw_view ]

\* BladeAtlas::get_texture_info(id), for the id of a texture of the pools
GetTextureInfo(id) ==
    /\ Usable
    /\ id.index + 1 \in 1..Len(textures[id.kind])
    /\ info' = TextureInfo(textures, id)
    /\ UNCHANGED <<atlas_vars, gpu_vars, destroyed, panicked, builds, encoded, first, live,
                   replay, flushed_at, failed, released, threads, typed>>

\* the ids tiles carry: those of the textures of the pools
TextureIds ==
    { [index |-> i - 1, kind |-> kind] : i \in 1..MaxTextures, kind \in Kinds }

InfoRequests == { <<Size(512, 512), "Path">>, <<Size(2048, 512), "Path">> }

\* the texture descriptor query among allocations and clears
NextInfo ==
    \/ GetOrInsert("glyph_a", FewOutputs)
    \/ \E req \in InfoRequests : Allocate(req[1], req[2])
    \/ \E kind \in Kinds : ClearTextures(kind)
    \/ \E id \in TextureIds : GetTextureInfo(id)

SpecInfo == Init /\ [][NextInfo]_vars

\* the data a direct caller hands to alloc_data<T>: <<data.len(),
\* size_of::<T>(), align_of::<T>()>> for u8, u16, u32, u64 and a 12-byte
\* struct aligned to 4, in slices short and as long as a chunk
DataInputs ==
    { <<3, 1, 1>>, <<1, 2, 2>>, <<1, 4, 4>>, <<1, 8, 8>>, <<5, 12, 4>>,
      <<65536, 1, 1>>, <<16384, 4, 4>> }

\* the range alloc_data returned, the bytes copied to it, and the number of
\* flushes before the call
TypedRange(got, len, elem_size, alignment) ==
    [ buffer    |-> got.piece.buffer,
      offset    |-> got.piece.offset,
      bytes     |-> len * elem_size,
      alignment |-> alignment,
      epoch     |-> Len(frames) ]

BeltAllocDataDone(len, elem_size, alignment, got) ==
    /\ WithinBufferBounds(got)
    /\ upload_belt' = got.belt
    /\ typed' = Append(typed, TypedRange(got, len, elem_size, alignment))
    /\ UNCHANGED <<textures, tiles_by_key, uploads, gpu_vars, destroyed, panicked, builds,
                   encoded, first, live, replay, flushed_at, failed, released, threads, info>>

\* belt.alloc_data(data, gpu) called by a user of the belt
BeltAllocDataCall(len, elem_size, alignment) ==
    /\ Usable
    /\ Len(typed) < MaxPieces
    /\ BeltAllocDataDone(len, elem_size, alignment,
                         BeltAllocData(upload_belt, len, elem_size, alignment, completed))

\* the belt on its own: typed allocations, flushes and fences
NextBelt ==
    \/ \E d \in DataInputs : BeltAllocDataCall(d[1], d[2], d[3])
    \/ AfterFrame(MaxFrames + 1)
    \/ FenceComplete

SpecBelt == Init /\ [][NextBelt]_vars

\* the sizes direct callers ask of alloc: small, parts that fill a buffer of
\* min_chunk_size to its end, a whole buffer, and more than min_chunk_size
AllocSizes == { 1, 24576, 40960, 65536, 100000 }

\* belt.alloc(size, gpu) called by a user of the belt; the range it returned
BeltAllocDone(size, got) ==
    /\ WithinBufferBounds(got)
    /\ upload_belt' = got.belt
    /\ typed' = Append(typed, TypedRange(got, size, 1, 1))
    /\ UNCHANGED <<textures, tiles_by_key, uploads, gpu_vars, destroyed, panicked, builds,
                   encoded, first, live, replay, flushed_at, failed, released, threads, info>>

BeltAllocCall(size) ==
    /\ Usable
    /\ Len(typed) < MaxPieces
    /\ BeltAllocDone(size, BeltAlloc(upload_belt, size, completed))

\* alloc on its own, with flushes and fences
NextAlloc ==
    \/ \E size \in AllocSizes : BeltAllocCall(size)
    \/ AfterFrame(MaxFrames + 1)
    \/ FenceComplete

SpecAlloc == Init /\ [][NextAlloc]_vars

\* builders of a tile that fills a texture of the default size, and of a smaller one
RefOutputs ==
    { [size |-> Size(1024, 1024), len |-> 1048576],
      [size |-> Size(512, 512), len |-> 262144] }

\* the ids that tiles, uploads and queries carry, up to the teardown
NextRefs ==
    \/ \E key \in GlyphKeys : GetOrInsert(key, RefOutputs)
    \/ ClearTextures("Monochrome")
    \/ BeforeFrame
    \/ AfterFrame(MaxFrames)
    \/ FenceComplete
    \/ \E id \in TextureIds : GetTextureInfo(id)
    \/ Destroy

SpecRefs == Init /\ [][NextRefs]_vars

\* the frames a steady user of the belt goes through, and the allocs it makes
SteadyFrames == MaxFrames + 2

SteadyPieces == MaxPieces + 2

\* the bytes asked of alloc since the last flush
RECURSIVE RequestedInFrame(_)
RequestedInFrame(i) ==
    IF i = 0 THEN 0
    ELSE RequestedInFrame(i - 1)
           + (IF typed[i].epoch = Len(frames) THEN typed[i].bytes ELSE 0)

\* belt.alloc(size, gpu) by a caller that waits for the fence of the last
\* frame before the first alloc of the next one and asks for at most
\* min_chunk_size bytes per frame
SteadyAlloc(size) ==
    /\ Usable
    /\ Len(typed) < SteadyPieces
    /\ completed = Len(frames)
    /\ RequestedInFrame(Len(typed)) + size <= min_chunk_size
    /\ BeltAllocDone(size, BeltAlloc(upload_belt, size, completed))

\* the belt in steady use: one flush per frame
NextSteady ==
    \/ \E size \in AllocSizes : SteadyAlloc(size)
    \/ AfterFrame(SteadyFrames)
    \/ FenceComplete

SpecSteady == Init /\ [][NextSteady]_vars

\* sizes the packer rounds up to the height of a shelf, next to sizes it does not
TileRequests == { <<Size(100, 100), "Path">>, <<Size(512, 512), "Path">>,
                  <<Size(1000, 40), "Path">> }

TileOutputs == { [size |-> Size(100, 50), len |-> 5000] }

\* tiles of sizes of every sort, from builders and from allocate
NextTiles ==
    \/ \E key \in FewKeys : GetOrInsert(key, TileOutputs)
    \/ \E req \in TileRequests : Allocate(req[1], req[2])
    \/ ClearTextures("Path")

SpecTiles == Init /\ [][NextTiles]_vars

PoolRequests == { <<Size(512, 512), "Path">>, <<Size(2048, 2048), "Path">> }

\* the pools of two kinds: cached glyphs next to Path allocations and clears
NextPools ==
    \/ \E key \in GlyphKeys : GetOrInsert(key, SmallOutputs)
    \/ \E req \in PoolRequests : Allocate(req[1], req[2])
    \/ ClearTextures("Path")

SpecPools == Init /\ [][NextPools]_vars

\* every operation of the atlas in use, from BladeAtlas::new to just before its
\* teardown, with few inputs each
Next ==
    \/ \E key \in FewKeys : GetOrInsert(key, FewOutputs)
    \/ \E req \in FewRequests : Allocate(req[1], req[2])
    \/ \E kind \in Kinds : ClearTextures(kind)
    \/ BeforeFrame
    \/ AfterFrame(MaxFrames)
    \/ FenceComplete

Spec == Init /\ [][Next]_vars

\* tile allocation: the operations that reserve and reset texture space
NextPacking ==
    \/ \E key \in GlyphKeys : GetOrInsert(key, SmallOutputs)
    \/ \E req \in AllocRequests : Allocate(req[1], req[2])
    \/ \E kind \in Kinds : ClearTextures(kind)

SpecPacking == Init /\ [][NextPacking]_vars

\* uploads: the operations that stage, encode and retire tile data
NextUpload ==
    \/ \E key \in Keys : GetOrInsert(key, BuildOutputs)
    \/ BeforeFrame
    \/ AfterFrame(MaxFrames + 1)
    \/ FenceComplete

SpecUpload == Init /\ [][NextUpload]_vars

\* misuse of the atlas among regular use
NextMisuse ==
    \/ \E key \in GlyphKeys : GetOrInsert(key, MisuseOutputs)
    \/ \E req \in MisuseRequests : Allocate(req[1], req[2])
    \/ BeforeFrame
    \/ AfterFrame(MaxFrames)
    \/ FenceComplete

SpecMisuse == Init /\ [][NextMisuse]_vars

\* the atlas in use and its teardown, once or twice: textures of the three
\* kinds, views of the Path textures, active and retired buffers
NextTeardown ==
    \/ \E key \in FewKeys : GetOrInsert(key, FewOutputs)
    \/ \E req \in PathRequests : Allocate(req[1], req[2])
    \/ BeforeFrame
    \/ AfterFrame(MaxFrames)
    \/ FenceComplete
    \/ Destroy

SpecTeardown == Init /\ [][NextTeardown]_vars

(***************************************************************************)
(* Callers on several threads.  Every method of BladeAtlas starts with     *)
(* self.0.lock() and holds the guard until it returns; a call is a         *)
(* sequence of steps, one per statement of get_or_insert_with.             *)
(***************************************************************************)
\* a lock() that returned whoever held the Mutex
LockIgnored(lock) == TRUE

\* Mutex::lock returns once no guard of the Mutex is alive
LockFree(lock) == lock = "none"

ThreadKeys == GlyphKeys

ThreadOutputs == SmallOutputs

ThreadRequests == { <<Size(512, 512), "Monochrome">> }

\* the callers that are in a call
InCall == { t \in Threads : threads.call[t].pc # "idle" }

Snapshot ==
    [ textures |-> textures, tiles_by_key |-> tiles_by_key,
      uploads |-> uploads, upload_belt |-> upload_belt ]

\* the record of a call that is about to take the lock
Called(op, key, kind, built) ==
    [Idle EXCEPT !.pc = "lock", !.op = op, !.key = key, !.kind = kind, !.built = built,
                 !.behind = threads.lock,
                 !.unmapped = (op = "get_or_insert_with" /\ tiles_by_key[key] = NoTile)]

\* a thread calls get_or_insert_with(key, build)
CallGetOrInsert(t, key) ==
    /\ Usable
    /\ threads.call[t].pc = "idle"
    /\ TotalLive + Cardinality(InCall) < MaxLive
    /\ threads' = [threads EXCEPT !.call[t] =
                      Called("get_or_insert_with", key, texture_kind(key), None)]
    /\ UNCHANGED <<atlas_vars, gpu_vars, destroyed, panicked, builds, encoded, first, live,
                   replay, flushed_at, failed, released, info, typed>>

\* a thread calls allocate(size, kind)
CallAllocate(t, size, kind) ==
    /\ Usable
    /\ threads.call[t].pc = "idle"
    /\ TotalLive + Cardinality(InCall) < MaxLive
    /\ threads' = [threads EXCEPT !.call[t] =
                      Called("allocate", "none", kind, [size |-> size, len |-> 0])]
    /\ UNCHANGED <<atlas_vars, gpu_vars, destroyed, panicked, builds, encoded, first, live,
                   replay, flushed_at, failed, released, info, typed>>

\* let mut lock = self.0.lock()
Lock(t) ==
    /\ threads.call[t].pc = "lock"
    /\ LockFree(threads.lock)
    /\ threads' = [threads EXCEPT
                      !.lock = t,
                      !.call[t].entered = Snapshot,
                      !.call[t].pc = IF threads.call[t].op = "allocate"
                                       THEN "allocate" ELSE "lookup"]
    /\ UNCHANGED <<atlas_vars, gpu_vars, destroyed, panicked, builds, encoded, first, live,
                   replay, flushed_at, failed, released, info, typed>>

\* lock.tiles_by_key.get(key): Some(tile) is returned, None goes on to build
Lookup(t) ==
    /\ threads.call[t].pc = "lookup"
    /\ threads' = IF tiles_by_key[threads.call[t].key] # NoTile
                    THEN [threads EXCEPT
                             !.call[t].pc = "return",
                             !.call[t].result = [key  |-> threads.call[t].key,
                                                 tile |-> tiles_by_key[threads.call[t].key]]]
                  ELSE [threads EXCEPT !.call[t].pc = "build"]
    /\ UNCHANGED <<atlas_vars, gpu_vars, destroyed, panicked, builds, encoded, first, live,
                   replay, flushed_at, failed, released, info, typed>>

\* build() returns Ok((size, bytes))
Build(t, built) ==
    /\ threads.call[t].pc = "build"
    /\ builds' = [builds EXCEPT ![threads.call[t].key] = Min(@ + 1, 2)]
    /\ threads' = [threads EXCEPT !.call[t].built = built, !.call[t].pc = "allocate"]
    /\ UNCHANGED <<atlas_vars, gpu_vars, destroyed, panicked, encoded, first, live,
                   replay, flushed_at, failed, released, info, typed>>

\* build() returns Err: `?` returns it
BuildErr(t) ==
    /\ threads.call[t].pc = "build"
    /\ failed' = IF failed = "none" THEN threads.call[t].key ELSE failed
    /\ threads' = [threads EXCEPT !.call[t].pc = "return"]
    /\ UNCHANGED <<atlas_vars, gpu_vars, destroyed, panicked, builds, encoded, first, live,
                   replay, flushed_at, released, info, typed>>

\* lock.allocate(size, kind); BladeAtlas::allocate returns the tile
ThreadAllocated(t, alloc) ==
    /\ WithinTextureBounds(alloc)
    /\ ~alloc.panic
    /\ textures' = alloc.textures
    /\ live' = [live EXCEPT ![threads.call[t].kind] = Append(@, alloc.tile)]
    /\ threads' = IF threads.call[t].op = "allocate"
                    THEN [threads EXCEPT !.call[t].tile = alloc.tile,
                                         !.call[t].pc = "return",
                                         !.call[t].result = [key |-> "none", tile |-> alloc.tile]]
                  ELSE [threads EXCEPT !.call[t].tile = alloc.tile, !.call[t].pc = "upload"]
    /\ UNCHANGED <<tiles_by_key, uploads, upload_belt, gpu_vars, destroyed, panicked, builds,
                   encoded, first, replay, flushed_at, failed, released, info, typed>>

ThreadAllocate(t) ==
    /\ threads.call[t].pc = "allocate"
    /\ ThreadAllocated(t, StateAllocate(textures, threads.call[t].built.size,
                                        threads.call[t].kind))

\* lock.upload_texture(tile.texture_id, tile.bounds, &bytes)
ThreadUploaded(t, up) ==
    /\ WithinBufferBounds(up.got)
    /\ upload_belt' = up.belt
    /\ uploads' = up.uploads
    /\ threads' = [threads EXCEPT !.call[t].pc = "insert"]
    /\ UNCHANGED <<textures, tiles_by_key, gpu_vars, destroyed, panicked, builds, encoded,
                   first, live, replay, flushed_at, failed, released, info, typed>>

ThreadUpload(t) ==
    /\ threads.call[t].pc = "upload"
    /\ ThreadUploaded(t, UploadTexture(upload_belt, uploads,
                                       threads.call[t].tile.texture_id,
                                       threads.call[t].tile.bounds,
                                       threads.call[t].built.len, threads.call[t].key))

\* lock.tiles_by_key.insert(key.clone(), tile.clone()); Ok(tile)
ThreadInsert(t) ==
    /\ threads.call[t].pc = "insert"
    /\ tiles_by_key' = InsertTile(tiles_by_key, threads.call[t].key, threads.call[t].tile)
    /\ first' = [first EXCEPT ![threads.call[t].key] =
                    IF @ = NoTile THEN threads.call[t].tile ELSE @]
    /\ threads' = [threads EXCEPT
                      !.call[t].pc = "return",
                      !.call[t].result = [key |-> threads.call[t].key,
                                          tile |-> threads.call[t].tile]]
    /\ UNCHANGED <<textures, uploads, upload_belt, gpu_vars, destroyed, panicked, builds,
                   encoded, live, replay, flushed_at, failed, released, info, typed>>

\* the call returns and its guard is dropped; a call made by a builder returns
\* into the builder
Return(t) ==
    /\ threads.call[t].pc = "return"
    /\ threads' = IF threads.call[t].outer = None
                    THEN [threads EXCEPT !.lock = "none", !.call[t].pc = "idle"]
                  ELSE [threads EXCEPT !.lock = "none", !.call[t] = threads.call[t].outer]
    /\ UNCHANGED <<atlas_vars, gpu_vars, destroyed, panicked, builds, encoded, first, live,
                   replay, flushed_at, failed, released, info, typed>>

NextThreads ==
    \E t \in Threads :
        \/ \E key \in ThreadKeys : CallGetOrInsert(t, key)
        \/ \E req \in ThreadRequests : CallAllocate(t, req[1], req[2])
        \/ Lock(t)
        \/ Lookup(t)
        \/ \E built \in ThreadOutputs : Build(t, built)
        \/ BuildErr(t)
        \/ ThreadAllocate(t)
        \/ ThreadUpload(t)
        \/ ThreadInsert(t)
        \/ Return(t)

SpecThreads == Init /\ [][NextThreads]_vars

\* what a builder asks of the atlas it is building a tile for
BuilderRequests == { <<Size(128, 128), "Monochrome">> }

\* the builder of t's get_or_insert_with calls get_or_insert_with(key, ..) on
\* the same atlas: the call is made on t's stack, above the frame that holds
\* the guard, and goes to self.0.lock()
BuildCallsGetOrInsert(t, key) ==
    /\ threads.call[t].pc = "build"
    /\ threads.call[t].outer = None
    /\ threads' = [threads EXCEPT !.call[t] =
                      [Called("get_or_insert_with", key, texture_kind(key), None)
                          EXCEPT !.outer = threads.call[t]]]
    /\ UNCHANGED <<atlas_vars, gpu_vars, destroyed, panicked, builds, encoded, first, live,
                   replay, flushed_at, failed, released, info, typed>>

\* the builder calls allocate(size, kind) on the same atlas
BuildCallsAllocate(t, size, kind) ==
    /\ threads.call[t].pc = "build"
    /\ threads.call[t].outer = None
    /\ threads' = [threads EXCEPT !.call[t] =
                      [Called("allocate", "none", kind, [size |-> size, len |-> 0])
                          EXCEPT !.outer = threads.call[t]]]
    /\ UNCHANGED <<atlas_vars, gpu_vars, destroyed, panicked, builds, encoded, first, live,
                   replay, flushed_at, failed, released, info, typed>>

\* callers sharing the atlas, with builders that use the atlas themselves
NextReentrant ==
    \/ NextThreads
    \/ \E t \in Threads :
        \/ \E key \in ThreadKeys : BuildCallsGetOrInsert(t, key)
        \/ \E req \in BuilderRequests : BuildCallsAllocate(t, req[1], req[2])

SpecReentrant == Init /\ [][NextReentrant]_vars

(***************************************************************************)
(* Properties.                                                             *)
(***************************************************************************)
\* C1 (Memoization): once get_or_insert(k) has succeeded, the key stays mapped,
\* a later call returns the tile of the first one, and the builder of k has
\* returned Ok at most once, whatever was interleaved.
Memoization ==
    \A k \in Keys :
        /\ builds[k] <= 1
        /\ first[k] # NoTile =>
             /\ tiles_by_key[k] # NoTile
             /\ HitResult(k) = first[k]

\* a key was mapped, the textures of its kind were cleared after it, and a
\* frame was submitted
MemoizedAcrossClear ==
    \E k \in Keys :
        /\ first[k] # NoTile
        /\ HitResult(k) = first[k]
        /\ replay.active /\ replay.kind = texture_kind(k)
        /\ Len(frames) > 0

PendingRange(i) == Range(uploads[i].data, uploads[i].len)

\* C2 (no reuse before the read): the bytes staged for a pending upload are
\* shared with no other pending upload, with no copy command of the encoder
\* and with no copy command of a submitted frame the GPU has not finished.
NoReuseBeforeRead ==
    \A i \in 1..Len(uploads) :
        /\ \A j \in 1..Len(uploads) : i # j => ~Overlap(PendingRange(i), PendingRange(j))
        /\ \A r \in EncoderReads \cup InFlightReads : ~Overlap(PendingRange(i), r)

\* C3 (no premature reuse): a buffer the belt allocates from was never
\* flushed, or the sync point of its last flush has passed.
NoPrematureReuse ==
    \A i \in 1..Len(upload_belt.active) :
        upload_belt.active[i].raw <= Len(flushed_at) =>
            wait_for(flushed_at[upload_belt.active[i].raw], completed)

\* a flushed buffer is active again while another one waits for its sync point
PromotedAfterFence ==
    /\ \E i \in 1..Len(upload_belt.active) :
          /\ upload_belt.active[i].raw <= Len(flushed_at)
          /\ flushed_at[upload_belt.active[i].raw] > 0
    /\ \E i \in 1..Len(upload_belt.buffers) :
          ~wait_for(upload_belt.buffers[i].sp, completed)

Disjoint(b1, b2) ==
    \/ b1.origin.x + b1.size.width <= b2.origin.x
    \/ b2.origin.x + b2.size.width <= b1.origin.x
    \/ b1.origin.y + b1.size.height <= b2.origin.y
    \/ b2.origin.y + b2.size.height <= b1.origin.y

\* C4 (packing): two tiles handed out from the same texture since its last
\* clear do not overlap.
PackingCorrect ==
    \A kind \in Kinds :
        \A i, j \in 1..Len(live[kind]) :
            (i < j /\ live[kind][i].texture_id = live[kind][j].texture_id) =>
                Disjoint(live[kind][i].bounds, live[kind][j].bounds)

\* three tiles share a texture, on two shelves
ThreeTilesOneTexture ==
    \E kind \in Kinds :
        /\ Len(live[kind]) = 3
        /\ live[kind][1].texture_id = live[kind][2].texture_id
        /\ live[kind][2].texture_id = live[kind][3].texture_id
        /\ live[kind][1].bounds.origin.y = live[kind][2].bounds.origin.y
        /\ live[kind][1].bounds.origin.y # live[kind][3].bounds.origin.y

\* C5 (reset without churn): while the sizes handed out before
\* clear_textures(kind) are allocated again in the same order, the kind has
\* as many textures as it had at the clear.
ResetKeepsTextureCount ==
    replay.active => Len(textures[replay.kind]) = replay.count

\* C6 (builder error): a get_or_insert whose builder returns Err changes no
\* texture, allocator, mapping, pending upload, staging buffer or command,
\* and leaves the key unmapped, so that the next call runs its builder.
BuilderErrorNoEffect ==
    [][ \A k \in Keys :
          GetOrInsertErr(k) =>
              /\ UNCHANGED <<textures, tiles_by_key, uploads, upload_belt, encoder, frames>>
              /\ tiles_by_key'[k] = NoTile ]_vars

\* the builder of a key failed, and a later call for the key built its tile
BuiltAfterError ==
    /\ failed # "none"
    /\ builds[failed] = 1
    /\ tiles_by_key[failed] # NoTile
    /\ uploads # << >>

PendingCount(k) == Cardinality({ i \in 1..Len(uploads) : uploads[i].key = k })

\* every upload is pending or was encoded, never both and never twice
EncodedOnce ==
    \A k \in Keys :
        /\ encoded[k] <= 1
        /\ PendingCount(k) + encoded[k] = builds[k]

\* before_frame appends one copy command per pending upload, in order, and
\* leaves none pending
EncodesAllPending ==
    BeforeFrame =>
        /\ uploads' = << >>
        /\ Len(encoder') = Len(encoder) + Len(uploads)
        /\ \A i \in 1..Len(uploads) :
              /\ encoder'[Len(encoder) + i].src = uploads[i].data
              /\ encoder'[Len(encoder) + i].key = uploads[i].key
              /\ encoder'[Len(encoder) + i].origin = uploads[i].bounds.origin

\* C7 (exactly-once encoding): the first before_frame after an upload was
\* queued encodes it, no other before_frame does, and no upload is encoded
\* twice or dropped.
ExactlyOnceEncoding == []EncodedOnce /\ [][EncodesAllPending]_vars

\* one upload was encoded by a before_frame, another was queued after it
EncodedAndPending ==
    \E k1, k2 \in Keys :
        /\ encoded[k1] = 1 /\ PendingCount(k1) = 0
        /\ encoded[k2] = 0 /\ PendingCount(k2) = 1
        /\ Len(frames) > 0

\* the tile lies within the extent of the texture its texture_id names
TileInside(tile, kind) ==
    /\ tile.texture_id.kind = kind
    /\ tile.texture_id.index + 1 \in 1..Len(textures[kind])
    /\ LET extent == AllocatorSize(textures[kind][tile.texture_id.index + 1].allocator)
       IN  /\ tile.bounds.origin.x >= 0
           /\ tile.bounds.origin.y >= 0
           /\ tile.bounds.origin.x + tile.bounds.size.width <= extent.width
           /\ tile.bounds.origin.y + tile.bounds.size.height <= extent.height

\* C8 (allocation succeeds): an allocation of a non-zero size returns a tile,
\* only a zero-sized one panics, and every tile handed out lies inside the
\* texture its texture_id names.
AllocationSucceeds ==
    /\ panicked.happened => (panicked.size.width = 0 \/ panicked.size.height = 0)
    /\ \A kind \in Kinds :
          \A i \in 1..Len(live[kind]) : TileInside(live[kind][i], kind)

\* the first texture of a kind was full, and a tile came from a second one
SecondTextureInUse ==
    \E kind \in Kinds :
        /\ Len(textures[kind]) = 2
        /\ Len(live[kind]) = 3
        /\ live[kind][1].texture_id.index = 0
        /\ live[kind][3].texture_id.index = 1
        /\ live[kind][1].bounds.size # live[kind][3].bounds.size

Oversize(size) == size.width > DEFAULT_ATLAS_SIZE \/ size.height > DEFAULT_ATLAS_SIZE

\* what allocate(size, kind) leaves when it had to create a texture
InNewTexture(size, kind) ==
    LET n == Len(textures[kind])
    IN  /\ ~panicked'.happened
        /\ Len(textures'[kind]) = n + 1
        /\ textures'[kind][n + 1].allocator.width >= size.width
        /\ textures'[kind][n + 1].allocator.height >= size.height
        /\ textures'[kind][n + 1].id = [index |-> n, kind |-> kind]
        /\ Len(live'[kind]) = Len(live[kind]) + 1
        /\ live'[kind][Len(live'[kind])].texture_id = [index |-> n, kind |-> kind]
        /\ live'[kind][Len(live'[kind])].bounds = [origin |-> Point(0, 0), size |-> size]

\* C9 (oversize): an allocation larger than the default texture size that no
\* texture of the kind accepts creates a texture at least as large as the
\* tile, and the tile is at the origin of that texture.
OversizeHandling ==
    [][ \A req \in AllocRequests :
          ( /\ Oversize(req[1])
            /\ FindMapRev(textures[req[2]], req[1], Len(textures[req[2]])) = 0
            /\ Allocate(req[1], req[2]) ) => InNewTexture(req[1], req[2]) ]_vars

\* a default-sized texture holds a tile, and a 2048x2048 tile lies at the
\* origin of a second texture of its size
OversizeInSecondTexture ==
    /\ Len(textures["Path"]) = 2
    /\ AllocatorSize(textures["Path"][1].allocator) = Size(1024, 1024)
    /\ AllocatorSize(textures["Path"][2].allocator) = Size(2048, 2048)
    /\ Len(live["Path"]) = 2
    /\ live["Path"][1].texture_id.index = 0
    /\ live["Path"][2].texture_id.index = 1
    /\ live["Path"][2].bounds = [origin |-> Point(0, 0), size |-> Size(2048, 2048)]

\* the texture is the same GPU object, with the same extent and nothing reserved
Cleared(old, new) ==
    /\ new.id = old.id
    /\ new.raw = old.raw
    /\ new.raw_view = old.raw_view
    /\ new.format = old.format
    /\ AllocatorSize(new.allocator) = AllocatorSize(old.allocator)
    /\ new.allocator.shelves = << >>
    /\ new.allocator.available_height = new.allocator.height

\* C10 (clear_textures): every allocator of the kind is fully free afterwards;
\* the textures of every kind are the same GPU objects with the same ids and
\* sizes, and the other kinds' allocators, the mappings, the pending uploads,
\* the belt and the encoder are unchanged.
ClearTexturesFrame ==
    [][ \A kind \in Kinds :
          ClearTextures(kind) =>
              /\ Len(textures'[kind]) = Len(textures[kind])
              /\ \A i \in 1..Len(textures[kind]) :
                    Cleared(textures[kind][i], textures'[kind][i])
              /\ \A other \in Kinds \ {kind} : textures'[other] = textures[other]
              /\ UNCHANGED <<tiles_by_key, uploads, upload_belt, encoder, frames>> ]_vars

\* a kind that had tiles was cleared while an upload was pending and
\* another kind had tiles of its own
ClearedWithUploadsPending ==
    /\ replay.active
    /\ Len(textures[replay.kind]) > 0
    /\ \A i \in 1..Len(textures[replay.kind]) :
          textures[replay.kind][i].allocator.shelves = << >>
    /\ uploads # << >>
    /\ \E other \in Kinds \ {replay.kind} : live[other] # << >>

\* C11 (re-population after a clear): a get_or_insert that finds its key
\* mapped returns a tile reserved in the allocators since the last
\* clear_textures of the key's kind, never a tile recorded before that clear.
HitAfterClearIsFresh ==
    [][ \A k \in Keys :
          GetOrInsertHit(k) =>
              \E i \in 1..Len(live[texture_kind(k)]) :
                  live[texture_kind(k)][i] = HitResult(k) ]_vars

\* C12 (a hit does no GPU work): a get_or_insert that finds its key mapped
\* leaves the texture pools and their allocators, the mappings, the pending
\* uploads, the belt and the encoder exactly as they were.
HitNoEffect ==
    [][ \A k \in Keys :
          GetOrInsertHit(k) =>
              UNCHANGED <<textures, tiles_by_key, uploads, upload_belt, encoder, frames>> ]_vars

\* the state a hit starts from and ends in: the key is mapped, its upload is
\* pending in an active buffer, and no replay is in progress
HitWithUploadPending ==
    \E k \in Keys :
        /\ Usable
        /\ tiles_by_key[k] # NoTile
        /\ HitResult(k) = first[k]
        /\ \E i \in 1..Len(uploads) : uploads[i].key = k
        /\ \E i \in 1..Len(upload_belt.active) : upload_belt.active[i].offset > 0
        /\ replay = NoReplay

\* what a miss with a successful builder leaves: one more builder call for the
\* key, one more tile of the key's kind with the builder's size, one more
\* pending upload for that tile, and the key mapped to it
MissEffect(k, built) ==
    LET kind == texture_kind(k)
        tile == tiles_by_key'[k]
        n    == Len(uploads)
    IN  /\ builds'[k] = builds[k] + 1
        /\ tile # NoTile
        /\ tile.texture_id.kind = kind
        /\ tile.bounds.size = built.size
        /\ live'[kind] = Append(live[kind], tile)
        /\ \A other \in Kinds \ {kind} : live'[other] = live[other]
        /\ Len(uploads') = n + 1
        /\ SubSeq(uploads', 1, n) = uploads
        /\ uploads'[n + 1].id = tile.texture_id
        /\ uploads'[n + 1].bounds = tile.bounds
        /\ uploads'[n + 1].len = built.len
        /\ \A other \in Keys \ {k} :
              /\ tiles_by_key'[other] = tiles_by_key[other]
              /\ builds'[other] = builds[other]

\* C13 (miss): a get_or_insert miss whose builder succeeds calls the builder
\* once, reserves one tile of the key's kind with the builder's size, queues
\* one upload whose texture id and bounds are the tile's, and maps the key to
\* the tile.
MissReservesUploadsMaps ==
    [][ \A k \in Keys : \A built \in BuildOutputs :
          (GetOrInsertMiss(k, built) /\ ~panicked'.happened) => MissEffect(k, built) ]_vars

\* two keys of one kind were inserted: the second tile is not at the origin
\* and the last pending upload is the one for it
SecondMissUploaded ==
    \E k \in Keys :
        /\ builds[k] = 1
        /\ tiles_by_key[k] # NoTile
        /\ tiles_by_key[k].bounds.origin # Point(0, 0)
        /\ Len(uploads) >= 2
        /\ uploads[Len(uploads)].key = k
        /\ uploads[Len(uploads)].id = tiles_by_key[k].texture_id
        /\ uploads[Len(uploads)].bounds = tiles_by_key[k].bounds

\* the sizes alloc is probed with in every state: a byte, a tile, a whole
\* chunk, and more than a chunk
ProbeSizes == { 1, 16384, min_chunk_size, 4 * min_chunk_size }

\* the piece lies within the capacity of an active buffer of the belt after
\* the call, whose cursor is the end of the piece
PieceWithin(got, size) ==
    \E i \in 1..Len(got.belt.active) :
        /\ got.belt.active[i].raw = got.piece.buffer
        /\ got.piece.offset >= 0
        /\ got.piece.offset + size <= got.belt.active[i].size
        /\ got.belt.active[i].offset = got.piece.offset + size

\* with no room in an active buffer and no retired buffer whose sync point
\* has passed, the piece is the start of a buffer created by the call
NewInsteadOfWait(belt, size, done, got) ==
    (FirstActive(belt, size) = 0 /\ Reusable(belt, size, done) = {}) =>
        /\ got.tier = "new"
        /\ got.piece.offset = 0
        /\ got.belt.buffers = belt.buffers
        /\ Len(got.belt.active) = Len(belt.active) + 1
        /\ \A i \in 1..Len(belt.buffers) : belt.buffers[i].raw # got.piece.buffer
        /\ \A i \in 1..Len(belt.active) : belt.active[i].raw # got.piece.buffer

AllocOutcome(belt, size, done, got) ==
    /\ got.tier \in {"active", "retired", "new"}
    /\ PieceWithin(got, size)
    /\ NewInsteadOfWait(belt, size, done, got)
    /\ TotalBuffers(got.belt) \in {TotalBuffers(belt), TotalBuffers(belt) + 1}

\* C14 (alloc never fails, never waits): in every state of the belt and of the
\* fences, alloc returns at once a piece that lies within one buffer, and
\* creates a buffer when no active buffer has room and no retired buffer's
\* sync point has passed.
AllocNeverFails ==
    \A size \in ProbeSizes :
        AllocOutcome(upload_belt, size, completed,
                     BeltAlloc(upload_belt, size, completed))

\* a buffer waits for its sync point, and a second buffer was created for an
\* allocation the first one had room for
CreatedInsteadOfWaiting ==
    /\ \E i \in 1..Len(upload_belt.buffers) :
          /\ ~wait_for(upload_belt.buffers[i].sp, completed)
          /\ \E j \in 1..Len(upload_belt.active) :
                /\ upload_belt.active[j].raw > upload_belt.buffers[i].raw
                /\ upload_belt.active[j].offset <= upload_belt.buffers[i].size
    /\ uploads # << >>

\* what after_frame(sp) leaves: no active buffer; the retired buffers as they
\* were, followed by the buffers that were active, each with its handle and
\* size and tagged sp; textures, mappings and pending uploads as they were
FlushEffect(sp) ==
    LET n == Len(upload_belt.buffers)
    IN  /\ upload_belt'.active = << >>
        /\ Len(upload_belt'.buffers) = n + Len(upload_belt.active)
        /\ SubSeq(upload_belt'.buffers, 1, n) = upload_belt.buffers
        /\ \A i \in 1..Len(upload_belt.active) :
              upload_belt'.buffers[n + i] = [ raw  |-> upload_belt.active[i].raw,
                                              size |-> upload_belt.active[i].size,
                                              sp   |-> sp ]
        /\ upload_belt'.min_chunk_size = upload_belt.min_chunk_size
        /\ UNCHANGED <<textures, tiles_by_key, uploads>>

\* C15 (flush): after_frame(sp) forwards to the belt's flush, which retires
\* every active buffer with sp and empties the active list; buffers retired
\* earlier keep their sync point; no buffer is lost, duplicated or resized;
\* textures, mappings and pending uploads are unchanged.
FlushRetiresActive ==
    [][ AfterFrame(MaxFrames + 1) => FlushEffect(Len(frames) + 1) ]_vars

\* two buffers were retired by two frames and keep their own sync points,
\* while an upload is still pending
RetiredByTwoFrames ==
    /\ upload_belt.active = << >>
    /\ Len(upload_belt.buffers) = 2
    /\ upload_belt.buffers[1].sp = 1
    /\ upload_belt.buffers[2].sp = 2
    /\ upload_belt.buffers[1].raw # upload_belt.buffers[2].raw
    /\ uploads # << >>

NoDuplicates(seq) == \A i, j \in 1..Len(seq) : i # j => seq[i] # seq[j]

Elements(seq) == { seq[i] : i \in 1..Len(seq) }

\* the handles of the textures, texture views and buffers that exist
LiveTextures ==
    Elements(RawsOf(textures["Monochrome"])) \cup Elements(RawsOf(textures["Polychrome"]))
        \cup Elements(RawsOf(textures["Path"]))

LiveViews == Elements(ViewsOf(textures["Path"]))

LiveBuffers == Elements(BeltDestroyed(upload_belt))

\* every handle ever created exists or was destroyed, and none was destroyed
\* twice; after destroy none exists
ReleasedOnce ==
    /\ NoDuplicates(released.textures)
    /\ NoDuplicates(released.views)
    /\ NoDuplicates(released.buffers)
    /\ LiveTextures \cap Elements(released.textures) = {}
    /\ LiveBuffers \cap Elements(released.buffers) = {}
    /\ LiveTextures \cup Elements(released.textures)
         = 1..(TotalTextures(textures) + Len(released.textures))
    /\ LiveViews \cup Elements(released.views)
         = 1..(TotalViews(textures) + Len(released.views))
    /\ LiveBuffers \cup Elements(released.buffers)
         = 1..(TotalBuffers(upload_belt) + Len(released.buffers))
    /\ destroyed =>
         /\ \A kind \in Kinds : textures[kind] = << >>
         /\ upload_belt.buffers = << >>
         /\ upload_belt.active = << >>

\* destroy destroys each texture, each view of a Path texture and each
\* buffer that exists, once
DestroysWhatExists ==
    Destroy =>
        /\ Elements(released'.textures) = Elements(released.textures) \cup LiveTextures
        /\ Elements(released'.views) = Elements(released.views) \cup LiveViews
        /\ Elements(released'.buffers) = Elements(released.buffers) \cup LiveBuffers
        /\ Len(released'.textures) = Len(released.textures) + TotalTextures(textures)
        /\ Len(released'.views) = Len(released.views) + TotalViews(textures)
        /\ Len(released'.buffers) = Len(released.buffers) + TotalBuffers(upload_belt)

\* C16 (teardown): after destroy the three pools and both lists of the belt
\* are empty, and every texture, every view of a Path texture and every
\* buffer that was created has been destroyed exactly once.
TeardownReleasesAll == []ReleasedOnce /\ [][DestroysWhatExists]_vars

\* destroy released textures of two kinds, a view, and a retired buffer
TornDownInUse ==
    /\ destroyed
    /\ released.calls = 1
    /\ Len(released.textures) >= 2
    /\ Len(released.views) >= 1
    /\ Len(released.buffers) >= 1
    /\ Len(frames) > 0

\* C17 (double destroy): a second destroy of the atlas, and with it of the
\* belt it owns, fails by assertion.
SecondDestroyFailsLoudly == released.calls >= 2 => panicked.happened

IsEmptySize(size) == size.width = 0 \/ size.height = 0

\* no tile handed out or mapped has an empty size
NoEmptyTile ==
    /\ \A kind \in Kinds : \A i \in 1..Len(live[kind]) :
          ~IsEmptySize(live[kind][i].bounds.size)
    /\ \A k \in Keys : tiles_by_key[k] # NoTile => ~IsEmptySize(tiles_by_key[k].bounds.size)

\* an allocation of an empty size, direct or for a builder's output, panics:
\* no tile is handed out, mapped or queued for upload
EmptySizePanics ==
    /\ \A req \in MisuseRequests :
          (IsEmptySize(req[1]) /\ Allocate(req[1], req[2])) =>
              /\ panicked'.happened /\ ~Asserted'
              /\ UNCHANGED <<live, tiles_by_key, uploads, upload_belt>>
    /\ \A k \in GlyphKeys : \A built \in MisuseOutputs :
          (IsEmptySize(built.size) /\ GetOrInsertMiss(k, built)) =>
              /\ panicked'.happened /\ ~Asserted'
              /\ UNCHANGED <<live, tiles_by_key, uploads, upload_belt>>

\* C18 (zero-sized asset): allocate for a size of width or height 0, or
\* get_or_insert whose builder returns such a size, panics instead of
\* returning a tile.
ZeroSizeFailsLoudly == []NoEmptyTile /\ [][EmptySizePanics]_vars

\* after regular tiles were handed out, a builder returned an empty size and
\* the call panicked in the unwrap, leaving the key unmapped
PanickedOnEmptyBuild ==
    /\ panicked.happened /\ ~Asserted
    /\ IsEmptySize(panicked.size)
    /\ \E k \in GlyphKeys : builds[k] = 1 /\ tiles_by_key[k] = NoTile
    /\ \E k \in GlyphKeys : tiles_by_key[k] # NoTile
    /\ live["Path"] # << >>

\* without data alloc_data fails its assertion and returns no piece; the
\* belt is as it was
EmptyDataAsserts(got) ==
    /\ got.tier = "assert"
    /\ got.belt = upload_belt

\* a get_or_insert whose builder returns no bytes for a non-empty size
\* panics in alloc_data with the belt, the uploads and the mappings untouched
EmptyBytesPanic ==
    \A k \in GlyphKeys : \A built \in MisuseOutputs :
        (built.len = 0 /\ ~IsEmptySize(built.size) /\ GetOrInsertMiss(k, built)) =>
            /\ panicked'.happened /\ Asserted'
            /\ UNCHANGED <<upload_belt, uploads, tiles_by_key>>

\* C19 (alloc_data needs data): alloc_data called with an empty slice fails
\* its assertion before any change to the belt: no cursor moves and no
\* buffer is promoted or created.
EmptyDataFailsFirst ==
    /\ []EmptyDataAsserts(BeltAllocData(upload_belt, 0, 1, 1, completed))
    /\ [][EmptyBytesPanic]_vars

\* the assertion failed while a retired buffer whose sync point had passed
\* was ready to be promoted, and while an upload was pending
AssertedWithReusableBuffer ==
    /\ panicked.happened /\ Asserted
    /\ upload_belt.active = << >>
    /\ Reusable(upload_belt, 1, completed) # {}
    /\ uploads # << >>

\* at most one caller is past lock(), and it is the one the Mutex names
MutualExclusion ==
    \A t \in Threads :
        threads.call[t].pc \notin {"idle", "lock"} => threads.lock = t

\* the builder of a key succeeded at most once, and every caller that got a
\* tile for a key got the tile the key is mapped to, the first made for it
SameTileForAll ==
    /\ \A k \in ThreadKeys : builds[k] <= 1
    /\ \A t \in Threads :
          (threads.call[t].result.key # "none") =>
              /\ threads.call[t].result.tile # NoTile
              /\ threads.call[t].result.tile = tiles_by_key[threads.call[t].result.key]
              /\ threads.call[t].result.tile = first[threads.call[t].result.key]
              /\ builds[threads.call[t].result.key] = 1

AtlasIs(texs, map, pending, belt) ==
    /\ textures = texs
    /\ tiles_by_key = map
    /\ uploads = pending
    /\ upload_belt = belt

\* what a whole get_or_insert_with that missed leaves, from the state `c.entered`
WholeMissUploaded(c, alloc, up) ==
    /\ AtlasIs(alloc.textures, InsertTile(c.entered.tiles_by_key, c.key, alloc.tile),
               up.uploads, up.belt)
    /\ c.result = [key |-> c.key, tile |-> alloc.tile]

WholeMiss(c, alloc) ==
    WholeMissUploaded(c, alloc,
                      UploadTexture(c.entered.upload_belt, c.entered.uploads,
                                    alloc.tile.texture_id, alloc.tile.bounds,
                                    c.built.len, c.key))

WholeAllocate(c, alloc) ==
    /\ AtlasIs(alloc.textures, c.entered.tiles_by_key, c.entered.uploads,
               c.entered.upload_belt)
    /\ c.result = [key |-> "none", tile |-> alloc.tile]

\* the atlas a returning call leaves and the tile it returns are those of
\* the whole operation run alone on the atlas the call found
WholeOperation(c) ==
    IF c.op = "allocate"
      THEN WholeAllocate(c, StateAllocate(c.entered.textures, c.built.size, c.kind))
    ELSE IF c.entered.tiles_by_key[c.key] # NoTile
      THEN /\ AtlasIs(c.entered.textures, c.entered.tiles_by_key, c.entered.uploads,
                      c.entered.upload_belt)
           /\ c.result = [key |-> c.key, tile |-> c.entered.tiles_by_key[c.key]]
    ELSE IF c.built = None
      THEN /\ AtlasIs(c.entered.textures, c.entered.tiles_by_key, c.entered.uploads,
                      c.entered.upload_belt)
           /\ c.result = NoResult
    ELSE WholeMiss(c, StateAllocate(c.entered.textures, c.built.size, c.kind))

Serial ==
    \A t \in Threads :
        threads.call[t].pc = "return" => WholeOperation(threads.call[t])

\* the atlas changes only in steps of the caller that holds the lock, and no
\* caller takes the lock from another
OnlyTheHolderWrites ==
    /\ atlas_vars' # atlas_vars =>
          /\ threads.lock # "none"
          /\ threads'.lock = threads.lock
          /\ \A t \in Threads \ {threads.lock} : threads'.call[t] = threads.call[t]
    /\ threads.lock # "none" => threads'.lock \in {threads.lock, "none"}

\* C20 (one lock): calls made concurrently through several handles exclude
\* each other and leave what whole operations in some order leave; two
\* concurrent get_or_insert calls for one unmapped key run a builder once and
\* return the same tile; no two callers reserve overlapping regions.
ConcurrentCallsSerialize ==
    /\ [](MutualExclusion /\ SameTileForAll /\ Serial /\ PackingCorrect)
    /\ [][OnlyTheHolderWrites]_vars

\* two calls for the same key, unmapped when each was made, the second made
\* while the first held the lock: one build, the same tile for both, next to
\* a region a caller reserved with allocate
ConcurrentCallsSameTile ==
    /\ threads.call["t1"].unmapped /\ threads.call["t2"].unmapped
    /\ threads.call["t2"].behind = "t1"
    /\ threads.call["t1"].pc = "idle" /\ threads.call["t2"].pc = "return"
    /\ threads.call["t1"].result.key = "glyph_a"
    /\ threads.call["t2"].result = threads.call["t1"].result
    /\ builds["glyph_a"] = 1
    /\ Len(live["Monochrome"]) = 2

\* every texture of a pool carries the pool's kind in its id, with the format
\* of that kind
PoolsOfOneKind ==
    \A kind \in Kinds : \A i \in 1..Len(textures[kind]) :
        /\ textures[kind][i].id.kind = kind
        /\ textures[kind][i].format = bytes_per_pixel(kind)

\* every tile handed out for a kind, by allocate or for a key, names a texture
\* of that kind
TilesOfTheirKind ==
    /\ \A kind \in Kinds : \A i \in 1..Len(live[kind]) :
          live[kind][i].texture_id.kind = kind
    /\ \A k \in Keys :
          /\ tiles_by_key[k] # NoTile => tiles_by_key[k].texture_id.kind = texture_kind(k)
          /\ first[k] # NoTile => first[k].texture_id.kind = texture_kind(k)

\* C21 (kinds apart): a tile returned by allocate(size, kind) or by
\* get_or_insert for a key of that kind names a texture of that kind, and
\* every texture of a kind's pool carries that kind in its id.
KindsNeverMixed == PoolsOfOneKind /\ TilesOfTheirKind

\* tiles of two kinds were handed out, a glyph's and a path's, each in a
\* texture of its own pool
TwoKindsInUse ==
    /\ live["Path"] # << >> /\ textures["Path"] # << >>
    /\ live["Monochrome"] # << >> /\ textures["Monochrome"] # << >>
    /\ \E k \in GlyphKeys : tiles_by_key[k] # NoTile

\* the tile names a texture of the pool and lies within its extent
TileWithin(tile, pool, kind) ==
    /\ tile.texture_id.kind = kind
    /\ tile.texture_id.index + 1 \in 1..Len(pool)
    /\ tile.bounds.origin.x >= 0
    /\ tile.bounds.origin.y >= 0
    /\ tile.bounds.origin.x + tile.bounds.size.width
          <= AllocatorSize(pool[tile.texture_id.index + 1].allocator).width
    /\ tile.bounds.origin.y + tile.bounds.size.height
          <= AllocatorSize(pool[tile.texture_id.index + 1].allocator).height

\* the last tile handed out for `kind` is new and lies in a texture of the kind
ReservedIn(kind) ==
    /\ Len(live'[kind]) = Len(live[kind]) + 1
    /\ \A other \in Kinds \ {kind} : live'[other] = live[other]
    /\ TileWithin(live'[kind][Len(live'[kind])], textures'[kind], kind)

\* what allocate(size, kind) leaves alone: the key cache, the pending uploads,
\* the belt, and the pools of the other kinds; it reserves a tile of the kind
\* or panics
AllocateBypasses(size, kind) ==
    ((Len(live'[kind]) # Len(live[kind]) \/ panicked' # panicked) /\ Allocate(size, kind)) =>
        /\ UNCHANGED <<tiles_by_key, uploads, upload_belt, builds, first, encoded>>
        /\ \A other \in Kinds \ {kind} : textures'[other] = textures[other]
        /\ Len(textures'[kind]) \in {Len(textures[kind]), Len(textures[kind]) + 1}
        /\ panicked'.happened \/ ReservedIn(kind)

\* C22 (allocate bypasses the key cache): allocate(size, kind) does not
\* change the key-to-tile mapping, queues no upload and does not touch the
\* belt; it reserves space in a texture of the kind, creating one if needed.
AllocateBypassesCache ==
    [][\A req \in PoolRequests : AllocateBypasses(req[1], req[2])]_vars

\* both glyphs are cached with their uploads pending, and allocate made a
\* Path texture after them and reserved a tile in it
AllocatedBesideCache ==
    /\ \A k \in GlyphKeys : tiles_by_key[k] # NoTile
    /\ Len(uploads) = 2
    /\ Len(textures["Monochrome"]) = 1 /\ Len(textures["Path"]) = 1
    /\ textures["Path"][1].raw > textures["Monochrome"][1].raw
    /\ Len(live["Path"]) = 1

\* a texture has a view exactly when its kind is Path
ViewIffPath ==
    \A kind \in Kinds : \A i \in 1..Len(textures[kind]) :
        (textures[kind][i].raw_view # 0) <=> (kind = "Path")

\* what was last reported for a texture is still what the texture has: no
\* allocation and no clear changed it
InfoStillTrue ==
    info # NoInfo =>
        /\ info.id.index + 1 \in 1..Len(textures[info.id.kind])
        /\ info.size = AllocatorSize(textures[info.id.kind][info.id.index + 1].allocator)
        /\ info.raw_view = textures[info.id.kind][info.id.index + 1].raw_view
        /\ (info.raw_view # 0) <=> (info.id.kind = "Path")

\* the size of the texture a step created is the extent given to
\* create_texture for the request of `size`
CreatedWith(size, kind) ==
    Len(textures'[kind]) = Len(textures[kind]) + 1 =>
        AllocatorSize(textures'[kind][Len(textures'[kind])].allocator)
            = Size(Max(size.width, DEFAULT_ATLAS_SIZE), Max(size.height, DEFAULT_ATLAS_SIZE))

\* a query changes nothing but what it reports
QueryReadsOnly ==
    /\ \A id \in TextureIds :
          GetTextureInfo(id) =>
              /\ UNCHANGED <<atlas_vars, gpu_vars, destroyed, panicked, live, first, builds>>
              /\ info'.id = id
              /\ info'.size = AllocatorSize(textures[id.kind][id.index + 1].allocator)
              /\ (info'.raw_view # 0) <=> (id.kind = "Path")
    /\ \A req \in InfoRequests : Allocate(req[1], req[2]) => CreatedWith(req[1], req[2])
    /\ \A built \in FewOutputs :
          GetOrInsertMiss("glyph_a", built) => CreatedWith(built.size, "Monochrome")
    /\ \A kind \in Kinds : \A i \in 1..Len(textures[kind]) :
          /\ AllocatorSize(textures'[kind][i].allocator)
               = AllocatorSize(textures[kind][i].allocator)
          /\ textures'[kind][i].raw_view = textures[kind][i].raw_view

\* C23 (texture descriptor query): get_texture_info(id) changes no atlas
\* state and reports the size the texture was created with, whatever was
\* allocated or cleared since, and a view exactly for a Path texture.
TextureInfoReadOnly == [](ViewIffPath /\ InfoStillTrue) /\ [][QueryReadsOnly]_vars

\* the 2048x1024 Path texture was queried, and since its creation the kind
\* was cleared and a tile allocated in it again, next to a glyph texture
\* without a view
QueriedAfterClear ==
    /\ info.id.kind = "Path"
    /\ info.size = Size(2048, 1024)
    /\ info.raw_view # 0
    /\ Len(live["Path"]) = 1
    /\ live["Path"][1].bounds.size = Size(512, 512)
    /\ live["Path"][1].texture_id = info.id
    /\ Len(textures["Monochrome"]) = 1

\* C24 (cached tiles never overlap): two keys mapped to tiles of one texture
\* have disjoint bounds, and no mapped tile overlaps another tile handed out
\* for that texture, also after clear_textures and further allocations.
CachedTilesNeverOverlap ==
    /\ \A k1, k2 \in Keys :
          (/\ k1 # k2
           /\ tiles_by_key[k1] # NoTile /\ tiles_by_key[k2] # NoTile
           /\ tiles_by_key[k1].texture_id = tiles_by_key[k2].texture_id) =>
              Disjoint(tiles_by_key[k1].bounds, tiles_by_key[k2].bounds)
    /\ \A k \in Keys : \A kind \in Kinds : \A i \in 1..Len(live[kind]) :
          (/\ tiles_by_key[k] # NoTile
           /\ live[kind][i] # tiles_by_key[k]
           /\ live[kind][i].texture_id = tiles_by_key[k].texture_id) =>
              Disjoint(tiles_by_key[k].bounds, live[kind][i].bounds)

\* the active buffers with room for `size` after their cursor
Fitting(belt, size) ==
    { i \in 1..Len(belt.active) : belt.active[i].offset + size <= belt.active[i].size }

\* the retired buffers large enough for `size` whose sync point has passed
Ready(belt, size, done) ==
    { i \in 1..Len(belt.buffers) :
        belt.buffers[i].size >= size /\ wait_for(belt.buffers[i].sp, done) }

Lowest(set) == CHOOSE i \in set : \A j \in set : i <= j

\* the piece is cut at the cursor of active buffer a, whose cursor moves by
\* size; no buffer is promoted or created
BumpedAt(belt, size, a, got) ==
    /\ got.tier = "active"
    /\ got.piece = [buffer |-> belt.active[a].raw, offset |-> belt.active[a].offset]
    /\ got.belt.active[a].offset = belt.active[a].offset + size
    /\ got.belt.active[a].raw = belt.active[a].raw
    /\ got.belt.active[a].size = belt.active[a].size
    /\ Len(got.belt.active) = Len(belt.active)
    /\ \A i \in 1..Len(belt.active) : i # a => got.belt.active[i] = belt.active[i]
    /\ got.belt.buffers = belt.buffers

\* with a fitting active buffer the outcome is a bump of the first one, the
\* same whatever the state of the fences
ActiveTier(belt, size) ==
    Fitting(belt, size) # {} =>
        \A done \in 0..(MaxFrames + 1) :
            BumpedAt(belt, size, Lowest(Fitting(belt, size)), BeltAlloc(belt, size, done))

\* C25 (active tier first): when an active buffer has cursor + size <=
\* capacity, alloc returns the range at the cursor of the first such buffer,
\* advances that cursor by size, promotes and creates nothing and polls no
\* fence.
ActiveTierFirst == \A size \in ProbeSizes : ActiveTier(upload_belt, size)

\* the first active buffer is full; the second took a second piece at its
\* cursor, behind the first piece
BumpedSecondBuffer ==
    /\ Len(upload_belt.active) = 2
    /\ upload_belt.active[1].offset = upload_belt.active[1].size
    /\ upload_belt.active[2].offset = 32768
    /\ Len(uploads) = 3
    /\ uploads[3].data = [buffer |-> upload_belt.active[2].raw, offset |-> 16384]

\* retired buffer r became the last active buffer with cursor = size and the
\* piece is its start; nothing was created
PromotedAt(belt, size, r, got) ==
    /\ got.tier = "retired"
    /\ got.piece = [buffer |-> belt.buffers[r].raw, offset |-> 0]
    /\ got.belt.buffers = RemoveAt(belt.buffers, r)
    /\ got.belt.active = Append(belt.active, [ raw    |-> belt.buffers[r].raw,
                                               size   |-> belt.buffers[r].size,
                                               offset |-> size ])
    /\ TotalBuffers(got.belt) = TotalBuffers(belt)

RetiredTier(belt, size, done) ==
    (Fitting(belt, size) = {} /\ Ready(belt, size, done) # {}) =>
        PromotedAt(belt, size, Lowest(Ready(belt, size, done)), BeltAlloc(belt, size, done))

\* C26 (retired tier second): when no active buffer fits, the first retired
\* buffer with capacity >= size whose fence has passed moves from the
\* retired to the active set; the range starts at its offset 0, its cursor
\* is size and no buffer is created.
RetiredTierSecond == \A size \in ProbeSizes : RetiredTier(upload_belt, size, completed)

\* the only buffer held two pieces, was flushed, and after its fence passed
\* was promoted for a third piece, which starts at offset 0 again
PromotedFromStart ==
    /\ upload_belt.buffers = << >>
    /\ Len(upload_belt.active) = 1
    /\ upload_belt.active[1].offset = 16384
    /\ \A k \in Keys : builds[k] = 1
    /\ Len(uploads) = 1
    /\ uploads[1].data = [buffer |-> upload_belt.active[1].raw, offset |-> 0]
    /\ completed >= 1

\* a buffer of max(size, min_chunk_size) was created and is the last active
\* buffer with cursor = size; the piece is its start; the buffers there
\* were stay where they were
CreatedFor(belt, size, got) ==
    /\ got.piece.offset = 0
    /\ got.belt.buffers = belt.buffers
    /\ Len(got.belt.active) = Len(belt.active) + 1
    /\ \A i \in 1..Len(belt.active) : got.belt.active[i] = belt.active[i]
    /\ got.belt.active[Len(got.belt.active)]
         = [ raw    |-> got.piece.buffer,
             size   |-> IF size >= min_chunk_size THEN size ELSE min_chunk_size,
             offset |-> size ]
    /\ \A i \in 1..Len(belt.buffers) : belt.buffers[i].raw # got.piece.buffer
    /\ \A i \in 1..Len(belt.active) : belt.active[i].raw # got.piece.buffer

GrowthTier(belt, size, done, got) ==
    /\ (got.tier = "new") <=> (Fitting(belt, size) = {} /\ Ready(belt, size, done) = {})
    /\ (got.tier = "new") => CreatedFor(belt, size, got)
    /\ (got.tier # "new") => TotalBuffers(got.belt) = TotalBuffers(belt)

\* C27 (growth last): a buffer is created only when no active buffer fits
\* and no retired buffer is both large enough and fence-complete; it has
\* capacity max(size, min_chunk_size), joins the active set with cursor =
\* size, the range starts at offset 0 and the other buffers stay in place.
GrowthLast ==
    \A size \in ProbeSizes :
        GrowthTier(upload_belt, size, completed, BeltAlloc(upload_belt, size, completed))

\* a retired buffer whose fence has passed was too small for 262144 bytes,
\* and a buffer of that capacity was created for them
GrewPastRetired ==
    /\ Len(upload_belt.buffers) = 1
    /\ wait_for(upload_belt.buffers[1].sp, completed)
    /\ upload_belt.buffers[1].size = min_chunk_size
    /\ Len(upload_belt.active) = 1
    /\ upload_belt.active[1].size = 262144
    /\ upload_belt.active[1].offset = 262144
    /\ upload_belt.active[1].raw > upload_belt.buffers[1].raw

\* the cursor of the active buffer with handle raw, 0 when it is not active
CursorOf(belt, raw) ==
    IF \E i \in 1..Len(belt.active) : belt.active[i].raw = raw
      THEN belt.active[CHOOSE i \in 1..Len(belt.active) : belt.active[i].raw = raw].offset
    ELSE 0

\* the call reserved [start, start + a + b - 1) of the buffer named by range
\* r, where start is the cursor the buffer had, or 0 for a buffer promoted or
\* created by the call; the range is aligned and lies inside what was reserved
AlignedInside(r, a, b, start, end) ==
    /\ r.bytes = b
    /\ end - start = a + b - 1
    /\ r.offset % a = 0
    /\ start <= r.offset
    /\ r.offset + b <= end

AllocDataReserves ==
    \A d \in DataInputs :
        BeltAllocDataCall(d[1], d[2], d[3]) =>
            AlignedInside(typed'[Len(typed')], d[3], d[1] * d[2],
                          CursorOf(upload_belt, typed'[Len(typed')].buffer),
                          CursorOf(upload_belt', typed'[Len(typed')].buffer))

\* two ranges returned with no flush between them do not overlap
TypedRangesApart ==
    \A i, j \in 1..Len(typed) :
        (i < j /\ typed[i].epoch = typed[j].epoch /\ typed[i].buffer = typed[j].buffer) =>
            \/ typed[i].offset + typed[i].bytes <= typed[j].offset
            \/ typed[j].offset + typed[j].bytes <= typed[i].offset

\* C28 (alloc_data alignment): for n >= 1 elements of alignment a and b
\* bytes in all, alloc_data reserves a + b - 1 bytes and returns an offset
\* that is a multiple of a with [offset, offset + b) inside the reserved
\* range; ranges returned between two flushes do not overlap.
AllocDataAligned == []TypedRangesApart /\ [][AllocDataReserves]_vars

\* after 3 bytes of u8 a u64 was placed at offset 8, past the cursor, and a
\* u32 after it was placed at the next multiple of 4, all before any flush
AlignedPastCursor ==
    /\ Len(typed) = 3
    /\ typed[1].offset = 0 /\ typed[1].bytes = 3
    /\ typed[2].alignment = 8 /\ typed[2].offset = 8
    /\ typed[3].alignment = 4 /\ typed[3].bytes = 4 /\ typed[3].offset = 20
    /\ \A i \in 1..3 : typed[i].epoch = 0 /\ typed[i].buffer = typed[1].buffer

\* the textures of the pool whose packer accepts the size
Accepting(pool, size) ==
    { i \in 1..Len(pool) : AllocatorAllocate(pool[i].allocator, size) # None }

Highest(set) == CHOOSE i \in set : \A j \in set : j <= i

\* the tile came from texture `chosen` of the pool, the only texture of the
\* pool that changed
TakenFrom(before, after, tile, chosen) ==
    /\ tile.texture_id.index + 1 = chosen
    /\ \A i \in 1..Len(before) : i # chosen => after[i] = before[i]

\* the newest accepting texture gave the tile and none was created; with no
\* accepting texture one was created and, unless the call panicked, gave it
NewestFirst(before, after, tiles, accepting, failure) ==
    IF accepting # {}
      THEN /\ ~failure
           /\ Len(after) = Len(before)
           /\ TakenFrom(before, after, tiles[Len(tiles)], Highest(accepting))
    ELSE /\ Len(after) = Len(before) + 1
         /\ failure \/ TakenFrom(before, after, tiles[Len(tiles)], Len(after))

\* a step that handed out a tile of the kind, or panicked: the steps an
\* allocate can be
HandsOut(kind) == Len(live'[kind]) = Len(live[kind]) + 1 \/ panicked' # panicked

AllocateNewestFirst(size, kind) ==
    (HandsOut(kind) /\ Allocate(size, kind)) =>
        /\ NewestFirst(textures[kind], textures'[kind], live'[kind],
                       Accepting(textures[kind], size), panicked'.happened)
        /\ \A other \in Kinds \ {kind} : textures'[other] = textures[other]

\* C29 (newest texture first): allocate tries the textures of the kind from
\* the newest to the oldest and takes the first that accepts; it creates a
\* texture only when all of them reject, and leaves the other kinds alone.
NewestTextureFirst ==
    [][\A req \in PoolRequests : AllocateNewestFirst(req[1], req[2])]_vars

\* the newest Path texture is full, and the third tile fell back to the
\* older one
FellBackToOlder ==
    /\ Len(textures["Path"]) = 2
    /\ Len(live["Path"]) = 3
    /\ live["Path"][2].texture_id.index = 1
    /\ live["Path"][3].texture_id.index = 0
    /\ Accepting(textures["Path"], Size(512, 512)) = {1}

\* the sizes push_texture is probed with in every state: smaller than the
\* default, equal to it, larger in one dimension, larger in both, and empty
ProbeTextureSizes ==
    { Size(100, 100), Size(1024, 1024), Size(2048, 512), Size(512, 2048),
      Size(1025, 1024), Size(4096, 2048), Size(0, 0) }

Larger(a, b) == IF a >= b THEN a ELSE b

\* a packer of the given size with nothing in it
EmptyPacker(allocator, width, height) ==
    /\ allocator.width = width
    /\ allocator.height = height
    /\ allocator.available_height = height
    /\ allocator.shelves = << >>

\* the pool has one more texture, the last, whose packer is empty and has
\* the larger of the request and 1024 in each dimension
PushedFor(before, after, size) ==
    /\ Len(after) = Len(before) + 1
    /\ \A i \in 1..Len(before) : after[i] = before[i]
    /\ EmptyPacker(after[Len(after)].allocator,
                   Larger(size.width, DEFAULT_ATLAS_SIZE),
                   Larger(size.height, DEFAULT_ATLAS_SIZE))

NewTextureSized ==
    \A size \in ProbeTextureSizes : \A kind \in Kinds :
        PushedFor(textures[kind], PushTexture(textures, size, kind)[kind], size)

\* the texture a step created for a request holds the request's tile alone,
\* at the origin of a packer of the larger of the request and 1024 per
\* dimension
CreatedEmptyFor(size, kind) ==
    Len(textures'[kind]) = Len(textures[kind]) + 1 =>
        /\ AllocatorSize(textures'[kind][Len(textures'[kind])].allocator)
             = Size(Larger(size.width, DEFAULT_ATLAS_SIZE),
                    Larger(size.height, DEFAULT_ATLAS_SIZE))
        /\ live'[kind][Len(live'[kind])].bounds = [origin |-> Point(0, 0), size |-> size]
        /\ live'[kind][Len(live'[kind])].texture_id.index = Len(textures[kind])

CreatingSteps ==
    /\ \A req \in InfoRequests :
          (Len(textures'[req[2]]) # Len(textures[req[2]]) /\ Allocate(req[1], req[2])) =>
              CreatedEmptyFor(req[1], req[2])
    /\ \A built \in FewOutputs :
          (Len(textures'["Monochrome"]) # Len(textures["Monochrome"])
             /\ GetOrInsertMiss("glyph_a", built)) =>
              CreatedEmptyFor(built.size, "Monochrome")

\* C30 (new texture size): a created texture has width = max(requested
\* width, 1024) and height = max(requested height, 1024), each dimension on
\* its own, and its packer is created empty with exactly that size.
NewTextureSize == []NewTextureSized /\ [][CreatingSteps]_vars

\* a request of 2048x512 did not fit the 1024x1024 Path texture and got a
\* texture of 2048x1024, with its tile at the origin
WideTextureCreated ==
    /\ Len(textures["Path"]) = 2
    /\ AllocatorSize(textures["Path"][1].allocator) = Size(1024, 1024)
    /\ AllocatorSize(textures["Path"][2].allocator) = Size(2048, 1024)
    /\ Len(live["Path"]) = 2
    /\ live["Path"][2].bounds = [origin |-> Point(0, 0), size |-> Size(2048, 512)]
    /\ live["Path"][2].texture_id.index = 1


\* ---- C31 ----
\* the texture at position i of a pool (counted from 0) has the id (kind, i)
IdsByPosition ==
    \A kind \in Kinds : \A i \in 1..Len(textures[kind]) :
        textures[kind][i].id = [index |-> i - 1, kind |-> kind]

\* the textures of `before` are all in `after`, each at its position with its
\* id, its handle and its physical size
PoolOnlyGrew(before, after) ==
    /\ Len(after) >= Len(before)
    /\ \A i \in 1..Len(before) :
        /\ after[i].id = before[i].id
        /\ after[i].raw = before[i].raw
        /\ AllocatorSize(after[i].allocator) = AllocatorSize(before[i].allocator)

TexturesOnlyAppended ==
    [][~destroyed' => \A kind \in Kinds : PoolOnlyGrew(textures[kind], textures'[kind])]_vars

\* C31: before destroy the texture at position i of kind k's pool has the id
\* (k, i), and every step, clear_textures included, keeps each pool's textures
\* in place with their ids, handles and sizes: pools only grow at their end
TextureIdentityStable == []IdsByPosition /\ TexturesOnlyAppended

\* a pool of two textures, one of them larger than the default, was cleared
TwoTexturesCleared ==
    /\ replay.active
    /\ replay.count >= 2
    /\ Len(textures[replay.kind]) >= 2
    /\ \E i \in 1..Len(textures[replay.kind]) :
        AllocatorSize(textures[replay.kind][i].allocator).width > DEFAULT_ATLAS_SIZE


\* ---- C32 ----
\* the bytes one pixel takes in a texture of the kind
KindBytes(kind) ==
    CASE kind = "Monochrome" -> 1
      [] kind = "Polychrome" -> 4
      [] kind = "Path" -> 2

\* cmd copies the upload's staging range into the texture its id names, at its
\* bounds, with rows of bounds width x bytes per pixel of the kind
CopiesUpload(cmd, upload, texs) ==
    /\ upload.id.index + 1 \in 1..Len(texs[upload.id.kind])
    /\ cmd.src = upload.data
    /\ cmd.texture = texs[upload.id.kind][upload.id.index + 1].raw
    /\ cmd.origin = upload.bounds.origin
    /\ cmd.extent = upload.bounds.size
    /\ cmd.bytes_per_row = upload.bounds.size.width * KindBytes(upload.id.kind)

\* `after` is `before` followed by one command per upload of `pending`, in order
OneCopyPerUpload(before, after, pending, texs) ==
    /\ Len(after) = Len(before) + Len(pending)
    /\ \A i \in 1..Len(before) : after[i] = before[i]
    /\ \A i \in 1..Len(pending) : CopiesUpload(after[Len(before) + i], pending[i], texs)

\* C32: a step that encodes commands is a before_frame with uploads pending; it
\* appends exactly one copy command per pending upload, in enqueue order, from
\* the upload's staging range to the texture of its id at its bounds with
\* bytes-per-row = width x bytes per pixel of the kind (1, 4, 2), leaves the
\* pending list empty and textures, key cache and belt unchanged; with nothing
\* pending no step encodes anything
BeforeFrameCopies ==
    [][ /\ Len(encoder') > Len(encoder) =>
            /\ uploads # << >>
            /\ OneCopyPerUpload(encoder, encoder', uploads, textures)
            /\ uploads' = << >>
            /\ textures' = textures
            /\ tiles_by_key' = tiles_by_key
            /\ upload_belt' = upload_belt
        /\ (uploads = << >> /\ encoder' # << >>) => encoder' = encoder ]_vars

\* two uploads of different kinds were encoded by one before_frame, the
\* monochrome one first, and nothing is pending
TwoKindsEncoded ==
    /\ uploads = << >>
    /\ Len(encoder) = 2
    /\ encoder[1].key = "glyph_a"
    /\ encoder[2].key = "image_c"
    /\ encoder[2].bytes_per_row = 4 * encoder[2].extent.width


\* ---- C33 ----
\* the positions of buffer raw in the active set and in the retired set
ActiveAt(belt, raw) == { i \in 1..Len(belt.active) : belt.active[i].raw = raw }

RetiredAt(belt, raw) == { i \in 1..Len(belt.buffers) : belt.buffers[i].raw = raw }

\* the buffers created so far: the GPU context numbers them as it creates them
CreatedBuffers(belt) ==
    { raw \in 1..(MaxBuffers + 2) : ActiveAt(belt, raw) \cup RetiredAt(belt, raw) # {} }

CapacityOf(belt, raw) ==
    IF ActiveAt(belt, raw) # {}
      THEN belt.active[CHOOSE i \in ActiveAt(belt, raw) : TRUE].size
    ELSE belt.buffers[CHOOSE i \in RetiredAt(belt, raw) : TRUE].size

FenceOf(belt, raw) == belt.buffers[CHOOSE i \in RetiredAt(belt, raw) : TRUE].sp

\* each buffer is once in one of the two sets, and holds min_chunk_size or more
InOneSet(belt) ==
    \A raw \in CreatedBuffers(belt) :
        /\ Cardinality(ActiveAt(belt, raw)) + Cardinality(RetiredAt(belt, raw)) = 1
        /\ CapacityOf(belt, raw) >= min_chunk_size

BuffersInOneSet == destroyed \/ InOneSet(upload_belt)

\* what one step may do to the buffers of the belt
LifecycleStep(before, after, flushing, done) ==
    /\ CreatedBuffers(before) \subseteq CreatedBuffers(after)
    /\ \A raw \in CreatedBuffers(before) :
        /\ CapacityOf(after, raw) = CapacityOf(before, raw)
        /\ (ActiveAt(before, raw) # {} /\ RetiredAt(after, raw) # {}) => flushing
        /\ (RetiredAt(before, raw) # {} /\ ActiveAt(after, raw) # {}) =>
               /\ ~flushing
               /\ FenceOf(before, raw) <= done
    /\ \A raw \in CreatedBuffers(after) \ CreatedBuffers(before) :
        /\ ~flushing
        /\ ActiveAt(after, raw) # {}

BufferTransitions ==
    [][(upload_belt' # upload_belt /\ ~destroyed') =>
          LifecycleStep(upload_belt, upload_belt', Len(frames') > Len(frames), completed)]_vars

\* C33: before destroy every buffer ever created is in exactly one of the
\* active and the retired set, its capacity is at least min_chunk_size and
\* never changes, and a step only creates a buffer into the active set, retires
\* active buffers in a flush, or promotes a retired buffer whose fence has
\* passed in an alloc; no buffer goes away
BufferLifecycle == []BuffersInOneSet /\ BufferTransitions

\* a buffer larger than min_chunk_size went through created, active, retired
\* and active again, next to a buffer that is still retired
PromotedBesideRetired ==
    /\ Len(upload_belt.active) = 1
    /\ Len(upload_belt.buffers) = 1
    /\ upload_belt.active[1].raw < upload_belt.buffers[1].raw
    /\ upload_belt.active[1].size > min_chunk_size
    /\ Len(frames) >= 1


\* ---- C34 ----
\* two ranges alloc returned since the last flush, in one buffer, share no byte
AllocRangesApart ==
    \A i, j \in 1..Len(typed) :
        (i < j /\ typed[i].epoch = typed[j].epoch /\ typed[i].buffer = typed[j].buffer) =>
            \/ typed[i].offset + typed[i].bytes <= typed[j].offset
            \/ typed[j].offset + typed[j].bytes <= typed[i].offset

\* a range alloc returned ends at or before the end of its buffer
AllocRangesInside ==
    \A i \in 1..Len(typed) :
        /\ typed[i].buffer \in CreatedBuffers(upload_belt)
        /\ typed[i].offset >= 0
        /\ typed[i].offset + typed[i].bytes <= CapacityOf(upload_belt, typed[i].buffer)

CursorsInside ==
    \A i \in 1..Len(upload_belt.active) :
        upload_belt.active[i].offset <= upload_belt.active[i].size

\* C34: the ranges alloc returned between two consecutive flushes that lie in
\* one buffer are disjoint, every returned range ends within its buffer's
\* capacity, and the cursor of every active buffer is at most its capacity
AllocRangesDisjoint == AllocRangesApart /\ AllocRangesInside /\ CursorsInside

\* two ranges of one frame fill a buffer to its last byte and the third had to
\* start another buffer
FilledToCapacity ==
    /\ Len(typed) = 3
    /\ typed[1].epoch = typed[3].epoch
    /\ typed[1].buffer = typed[2].buffer
    /\ typed[2].offset + typed[2].bytes = min_chunk_size
    /\ typed[3].buffer # typed[1].buffer
    /\ typed[3].offset = 0


\* ---- C35 ----
\* the id names a texture of the pools
Existing(id, texs) ==
    /\ id.kind \in Kinds
    /\ id.index >= 0
    /\ id.index < Len(texs[id.kind])

\* the ids of the tiles handed out and not cleared since
HandedOutIds ==
    UNION { { live[kind][i].texture_id : i \in 1..Len(live[kind]) } : kind \in Kinds }

CachedIds == { tiles_by_key[key].texture_id : key \in { k \in Keys : tiles_by_key[k] # NoTile } }

PendingIds == { uploads[i].id : i \in 1..Len(uploads) }

\* C35: before destroy every tile of the key cache and every pending upload
\* names an existing texture: its index is less than the length of the pool of
\* its kind, so before_frame and get_texture_info index inside the pool for
\* every id taken from a returned tile
IdsNameTextures ==
    ~destroyed => \A id \in CachedIds \cup PendingIds \cup HandedOutIds : Existing(id, textures)

\* a cached tile and its pending upload name the second texture of the pool,
\* whose first texture was cleared while it held a cached tile
SecondTextureNamed ==
    /\ ~destroyed
    /\ Len(textures["Monochrome"]) = 2
    /\ tiles_by_key["glyph_a"] # NoTile
    /\ tiles_by_key["glyph_b"] # NoTile
    /\ tiles_by_key["glyph_b"].texture_id.index = 1
    /\ \E i \in 1..Len(uploads) : uploads[i].id.index = 1
    /\ live["Monochrome"] = << >>
    /\ info.id.index = 1


\* ---- C36 ----
\* the bytes the copy command of the upload reads from its staging range
CopyReads(upload) ==
    upload.bounds.size.width * upload.bounds.size.height * KindBytes(upload.id.kind)

\* the bytes the copy of upload u reads are bytes alloc_data wrote for u: none
\* past the end of its data, none of the data of another pending upload v
ReadsOwnData(u, v) ==
    /\ CopyReads(u) <= u.len
    /\ (u # v /\ u.data.buffer = v.data.buffer) =>
           \/ u.data.offset + CopyReads(u) <= v.data.offset
           \/ v.data.offset + v.len <= u.data.offset

\* C36: the staging range of every pending upload holds at least bounds width
\* x bounds height x bytes per pixel bytes of the upload's own data, so the
\* copy before_frame encodes for it reads no byte of another upload and no
\* byte that was not written
StagingHoldsTile ==
    \A i, j \in 1..Len(uploads) : ReadsOwnData(uploads[i], uploads[j])


\* ---- C37 ----
\* the callers that wait in self.0.lock()
AtLock == { t \in Threads : threads.call[t].pc = "lock" }

\* the caller that holds the guard can run on to the return that drops it
HolderRuns == threads.lock \notin AtLock

\* C37: no call into the atlas blocks forever: a caller waits in lock() only
\* while the guard is held by a caller that can run to its return, also when
\* the builder of a get_or_insert calls an operation of the same atlas
NoCallBlocksForever == AtLock # {} => HolderRuns


\* ---- C38 ----
\* C38: with one flush per frame, every fence passed before the next frame's
\* first alloc and at most min_chunk_size bytes asked of alloc per frame, the
\* belt never holds more than one buffer, and holds exactly one, of
\* min_chunk_size bytes, once an alloc was made
SteadyStateReuse ==
    /\ TotalBuffers(upload_belt) <= 1
    /\ typed # << >> =>
          /\ CreatedBuffers(upload_belt) = {1}
          /\ CapacityOf(upload_belt, 1) = min_chunk_size
          /\ \A i \in 1..Len(typed) : typed[i].buffer = 1

\* the third frame filled the one buffer to its end, as a frame before it did
ThirdFrameFilled ==
    /\ Len(frames) = 2
    /\ TotalBuffers(upload_belt) = 1
    /\ Len(typed) = 4
    /\ typed[1].epoch = 0 /\ typed[2].epoch = 0
    /\ typed[1].bytes + typed[2].bytes = min_chunk_size
    /\ typed[3].epoch = 1
    /\ typed[4].epoch = 2 /\ typed[4].bytes = min_chunk_size


\* ---- C39 ----
\* the allocator the texture at position j of `after` had before the step: the
\* one it had in `before`, or an empty one of its size if the step created it
AllocatorBefore(before, after, j) ==
    IF j <= Len(before) THEN before[j].allocator
    ELSE AllocatorNew(AllocatorSize(after[j].allocator))

\* the texture reserved `allocation` for the tile: the tile has the asked
\* size, the minimum corner of the rectangle, the texture's id and no padding
TileFrom(tile, size, texture, allocation) ==
    /\ allocation # None
    /\ texture.allocator = allocation.allocator
    /\ tile.bounds.size = size
    /\ tile.bounds.origin = allocation.min
    /\ tile.texture_id = texture.id
    /\ tile.padding = 0

\* the tile is the one a texture of `after` reserved for `size` in this step,
\* and no other texture of the pool reserved anything
TileAsAsked(tile, size, before, after) ==
    /\ tile.texture_id.index + 1 \in 1..Len(after)
    /\ TileFrom(tile, size, after[tile.texture_id.index + 1],
                AllocatorAllocate(AllocatorBefore(before, after, tile.texture_id.index + 1),
                                  size))
    /\ \A j \in 1..Len(before) : j # tile.texture_id.index + 1 => after[j] = before[j]

\* a step handed out a tile of the kind
HandedOut(kind) == Len(live'[kind]) = Len(live[kind]) + 1

AllocateTile(size, kind) ==
    (HandedOut(kind) /\ Allocate(size, kind)) =>
        TileAsAsked(live'[kind][Len(live'[kind])], size, textures[kind], textures'[kind])

GetOrInsertTile(key, built) ==
    (HandedOut(texture_kind(key)) /\ GetOrInsertMiss(key, built)) =>
        /\ TileAsAsked(tiles_by_key'[key], built.size,
                       textures[texture_kind(key)], textures'[texture_kind(key)])
        /\ live'[texture_kind(key)][Len(live'[texture_kind(key)])] = tiles_by_key'[key]

\* C39: every tile allocate or get_or_insert returns has exactly the size
\* asked for, not that of the packer's rectangle, the minimum corner of the
\* rectangle the packer reserved as its origin, the id of the texture that
\* reserved it, and padding 0; a hit returns the cached tile as it was made
TileFields ==
    [][ /\ \A req \in TileRequests : AllocateTile(req[1], req[2])
        /\ \A key \in FewKeys : \A built \in TileOutputs : GetOrInsertTile(key, built)
        /\ \A key \in FewKeys : tiles_by_key[key] # NoTile => tiles_by_key'[key] = tiles_by_key[key]
      ]_vars

\* a tile of 100 x 100 lies in a shelf 112 high: the tile after it, in the
\* next shelf, starts at y = 112; a cached tile of 100 x 50 lies in a shelf of 64
TileSmallerThanRectangle ==
    /\ Len(live["Path"]) = 2
    /\ live["Path"][1].bounds.size = Size(100, 100)
    /\ live["Path"][1].bounds.origin = Point(0, 0)
    /\ live["Path"][2].bounds.size = Size(512, 512)
    /\ live["Path"][2].bounds.origin = Point(0, 112)
    /\ tiles_by_key["image_c"] # NoTile
    /\ tiles_by_key["image_c"].bounds.size = Size(100, 50)

=============================================================================
